---- MODULE Spec2Model ----
(***************************************************************************)
(* Model of the AGV use-case evaluation core of erikwilhelm/AGVeval:       *)
(* src/Python/AGVUseCaseFunctions.py (ModelAGVUseCase, SenstivityAnalysis).*)
(*                                                                         *)
(* Numbers.  The program computes with Python ints/floats and numpy        *)
(* float64.  A number is modelled as an exact rational [n, d] with d > 0   *)
(* in lowest terms, extended with the three non-finite float64 values:     *)
(* d = 0 and n = 1 (inf), n = -1 (-inf), n = 0 (nan).  Rounding error of   *)
(* binary floating point and the sign of zero are not modelled.            *)
(* A record field additionally carries its run-time type t: "py" for a     *)
(* Python int/float, "np" for a numpy scalar, "obj" for a nested record.   *)
(* The type decides whether a division by zero raises ZeroDivisionError    *)
(* (both operands Python numbers) or yields inf/nan (numpy operand).       *)
(***************************************************************************)
EXTENDS Integers, Sequences, FiniteSets, TLC

----------------------------------------------------------------------------
(* Extended rational arithmetic (float64 semantics without rounding).      *)

RECURSIVE GCD(_, _)
GCD(a, b) == IF b = 0 THEN a ELSE GCD(b, a % b)

Abs(n) == IF n < 0 THEN -n ELSE n

Sgn(n) == IF n < 0 THEN -1 ELSE IF n > 0 THEN 1 ELSE 0

\* the rational n/d (d # 0) in lowest terms with positive denominator
Rat(n, d) ==
    LET g == GCD(Abs(n), Abs(d))
        s == IF d < 0 THEN -1 ELSE 1
    IN  [n |-> s * (n \div g), d |-> Abs(d) \div g]

I(k) == [n |-> k, d |-> 1]

NaN == [n |-> 0, d |-> 0]

IsFinite(x) == x.d # 0
IsNaN(x)    == x.d = 0 /\ x.n = 0
IsInf(x)    == x.d = 0 /\ x.n # 0

\* drop the run-time type of a field value
Val(x) == [n |-> x.n, d |-> x.d]

Neg(x) == [n |-> -x.n, d |-> x.d]

Add(x, y) ==
    IF IsNaN(x) \/ IsNaN(y) THEN NaN
    ELSE IF IsInf(x) /\ IsInf(y) THEN (IF x.n = y.n THEN Val(x) ELSE NaN)
    ELSE IF IsInf(x) THEN Val(x)
    ELSE IF IsInf(y) THEN Val(y)
    ELSE IF x.d = 1 /\ y.d = 1 THEN [n |-> x.n + y.n, d |-> 1]
    ELSE LET g == GCD(x.d, y.d)
         IN  Rat(x.n * (y.d \div g) + y.n * (x.d \div g), (x.d \div g) * y.d)

Sub(x, y) == Add(x, Neg(y))

Mul(x, y) ==
    IF IsNaN(x) \/ IsNaN(y) THEN NaN
    ELSE IF IsInf(x) \/ IsInf(y)
         THEN (IF x.n = 0 \/ y.n = 0 THEN NaN
               ELSE [n |-> Sgn(x.n) * Sgn(y.n), d |-> 0])
    ELSE IF x.d = 1 /\ y.d = 1 THEN [n |-> x.n * y.n, d |-> 1]
    ELSE LET g1 == GCD(Abs(x.n), y.d)
             g2 == GCD(Abs(y.n), x.d)
         IN  [n |-> (x.n \div g1) * (y.n \div g2),
              d |-> (x.d \div g2) * (y.d \div g1)]

\* float64 division: x/0 is inf, -inf or nan, never an exception
Div(x, y) ==
    IF IsNaN(x) \/ IsNaN(y) THEN NaN
    ELSE IF IsInf(y) THEN (IF IsInf(x) THEN NaN ELSE I(0))
    ELSE IF y.n = 0
         THEN (IF x.n = 0 THEN NaN ELSE [n |-> Sgn(x.n), d |-> 0])
    ELSE IF IsInf(x) THEN [n |-> Sgn(x.n) * Sgn(y.n), d |-> 0]
    ELSE IF x.d = 1 /\ y.d = 1 THEN Rat(x.n, y.n)
    ELSE Mul(x, Rat(y.d, y.n))

\* comparisons; every comparison with nan is false
Lt(x, y) ==
    /\ ~IsNaN(x) /\ ~IsNaN(y)
    /\ IF IsInf(x) /\ IsInf(y) THEN x.n < y.n
       ELSE IF IsInf(x) THEN x.n < 0
       ELSE IF IsInf(y) THEN y.n > 0
       ELSE IF x.d = y.d THEN x.n < y.n
       ELSE LET g == GCD(x.d, y.d)
            IN  x.n * (y.d \div g) < y.n * (x.d \div g)

Gt(x, y) == Lt(y, x)
Le(x, y) == ~IsNaN(x) /\ ~IsNaN(y) /\ ~Lt(y, x)
Ge(x, y) == Le(y, x)

IsIntegral(x) == x.d = 1

\* x is zero
IsZero(x) == x.d = 1 /\ x.n = 0

\* np.ceil: smallest integer not below x; non-finite values pass through
Ceil(x) ==
    IF ~IsFinite(x) THEN Val(x) ELSE I(-((-x.n) \div x.d))

\* int(): truncation toward zero (defined for finite values only)
Trunc(x) ==
    IF x.n >= 0 THEN I(x.n \div x.d) ELSE I(-((-x.n) \div x.d))

\* np.clip(x, lo, hi) = minimum(maximum(x, lo), hi); nan passes through
Clip(x, lo, hi) ==
    IF IsNaN(x) THEN NaN
    ELSE IF Lt(x, lo) THEN lo
    ELSE IF Gt(x, hi) THEN hi
    ELSE Val(x)

RECURSIVE Pow(_, _)
Pow(x, k) == IF k = 0 THEN I(1) ELSE Mul(x, Pow(x, k - 1))

\* field values tagged with their run-time type
Py(x)  == [n |-> x.n, d |-> x.d, t |-> "py"]
Np(x)  == [n |-> x.n, d |-> x.d, t |-> "np"]
PyI(k) == Py(I(k))
PyR(n, d) == Py(Rat(n, d))
Obj == [n |-> 0, d |-> 0, t |-> "obj"]

----------------------------------------------------------------------------
(* The parameter records (dataclasses Assumption, Input, Vehicle, Agv).   *)
(* A record is a function from attribute names to typed values, so that    *)
(* hasattr/getattr/setattr by name are DOMAIN, application and EXCEPT.     *)

AssumptionFields ==
    {"discount_rate", "electricity_price", "diesel_price", "diesel_energy",
     "data_carriage", "years_of_operation", "technology_readiness",
     "company_acceptance", "mission_similarity", "mission_determinism"}

VehicleFields ==
    {"vehicle_cost", "vehicle_energy_consumption", "operator_hourly_wage",
     "vehicle_maintainance", "vehicle_eol_cost", "vehicle_average_speed",
     "vehicle_material_capacity", "vehicle_max_shift_length"}

AgvFields ==
    {"agv_cost", "agv_leasing", "agv_maintenance", "agv_eol_cost",
     "agv_average_speed", "agv_charge_rate", "agv_disengagement_per_km",
     "agv_disengagement_time", "agv_material_capacity",
     "agv_energy_consumption", "agv_max_shift_length", "agv_data_use"}

\* the attributes of an Input object; vehicle and agv hold nested records
InputFields ==
    {"mission_length", "material_to_move", "yearly_operation_days",
     "vehicle", "agv"}

\* the four records as one store: as = assumptions, inp = the scalar
\* attributes of inputs, veh = inputs.vehicle, agv = inputs.agv
HasAttr(rec, key) == key \in DOMAIN rec

----------------------------------------------------------------------------
(* ModelAGVUseCase.  A store s is the four records [as, inp, veh, agv].    *)

\* variant: the days are only capped at 365
ClampYearlyOperationDaysUpperOnly(v) ==
    Py(Trunc(IF Gt(v, I(365)) THEN I(365) ELSE Val(v)))

\* line 255-257: int(np.clip(yearly_operation_days, 1, 365))
ClampYearlyOperationDays(v) == Py(Trunc(Clip(v, I(1), I(365))))

\* lines 258-260: np.clip(diesel_energy, 0.95, 0.97)
ClampDieselEnergy(v) == Np(Clip(v, Rat(95, 100), Rat(97, 100)))

\* variant: the horizon is normalised to whole years too
SanityCheckWithYears(s) ==
    [s EXCEPT !.inp["yearly_operation_days"] =
                  ClampYearlyOperationDays(s.inp["yearly_operation_days"]),
              !.as["diesel_energy"] =
                  ClampDieselEnergy(s.as["diesel_energy"]),
              !.as["years_of_operation"] =
                  Py(Trunc(s.as["years_of_operation"]))]

\* lines 255-260: the in-place sanity clamps
SanityCheck(s) ==
    [s EXCEPT !.inp["yearly_operation_days"] =
                  ClampYearlyOperationDays(s.inp["yearly_operation_days"]),
              !.as["diesel_energy"] =
                  ClampDieselEnergy(s.as["diesel_energy"])]

\* a / b on two attribute values raises ZeroDivisionError exactly when both
\* are Python numbers and b is zero; a numpy operand yields inf or nan
PyDivRaises(x, y) == x.t = "py" /\ y.t = "py" /\ y.n = 0

\* variant: missions rounded to the nearest integer instead of up
DailyMissionsRounded(materialToMove, materialCapacity) ==
    LET q == Div(materialToMove, materialCapacity)
    IN  IF ~IsFinite(q) THEN q ELSE I((2 * q.n + q.d) \div (2 * q.d))

\* lines 264-266 and 300-302: number of missions driven per day
DailyMissions(materialToMove, materialCapacity) ==
    Ceil(Div(materialToMove, materialCapacity))

\* variant: fleet size rounded down instead of up
FleetSizeFloor(dailyTime, maxShiftLength) ==
    LET q == Div(dailyTime, maxShiftLength)
    IN  IF ~IsFinite(q) THEN q ELSE I(q.n \div q.d)

\* lines 271-273 and 310: number of vehicles needed to achieve the mission
FleetSize(dailyTime, maxShiftLength) ==
    Ceil(Div(dailyTime, maxShiftLength))

\* lines 305-308: driving time plus charging time
AGVTime(dailyDistance, averageSpeed, dailyEnergy, chargeRate) ==
    Add(Div(dailyDistance, averageSpeed), Div(dailyEnergy, chargeRate))

\* lines 315-318: the financing-mode warning (not an error)
FinancingWarning(purchasePrice, leasingPrice) ==
    Gt(purchasePrice, I(0)) /\ Gt(leasingPrice, I(0))

\* variant: the price difference without the clamp to 0
InvestmentUnclamped(vehiclePurchasePrice, agvPurchasePrice) ==
    Sub(vehiclePurchasePrice, agvPurchasePrice)

\* lines 354-357
Investment(vehiclePurchasePrice, agvPurchasePrice) ==
    IF Lt(vehiclePurchasePrice, agvPurchasePrice)
    THEN Sub(vehiclePurchasePrice, agvPurchasePrice)
    ELSE I(0)

\* [x] * k: a list of k copies of x, empty when k <= 0
Repeat(x, k) == [j \in 1..k |-> x]

\* variant: one repetition of the annual savings per year of operation
CashFlowListFullYears(investmentCost, annualSavings, endOfLifePrice, years) ==
    <<investmentCost>> \o Repeat(annualSavings, Trunc(years).n)
        \o <<Add(annualSavings, endOfLifePrice)>>

\* lines 365-369
CashFlowList(investmentCost, annualSavings, endOfLifePrice, years) ==
    <<investmentCost>> \o Repeat(annualSavings, Trunc(years).n - 1)
        \o <<Add(annualSavings, endOfLifePrice)>>

\* npf.npv(rate, values): sum of values[t] / (1 + rate)^t, t = 0, 1, ...
RECURSIVE NpvFrom(_, _, _, _)
NpvFrom(base, values, t, disc) ==
    IF t > Len(values) THEN I(0)
    ELSE Add(Div(values[t], disc),
             NpvFrom(base, values, t + 1, Mul(disc, base)))

\* variant: the investment entry left out of the discounted sum
NpvOfSavings(rate, values) ==
    NpvFrom(Add(I(1), rate), values, 2, Add(I(1), rate))

\* line 373
Npv(rate, values) == NpvFrom(Add(I(1), rate), values, 1, I(1))

\* np.log by the class of its result: nan for a negative argument or nan,
\* -inf at 0, negative below 1, zero at 1, positive above 1, inf at inf
LogClass(x) ==
    IF IsNaN(x) \/ Lt(x, I(0)) THEN "nan"
    ELSE IF IsInf(x) THEN "inf"
    ELSE IF x.n = 0 THEN "-inf"
    ELSE IF Lt(x, I(1)) THEN "neg"
    ELSE IF x = I(1) THEN "zero"
    ELSE "pos"

\* the class of a float64 quotient a / b from the classes of a and b
QuotientClass(a, b) ==
    LET sa_ == IF a \in {"neg", "-inf"} THEN -1 ELSE 1
        sb_ == IF b \in {"neg", "-inf"} THEN -1 ELSE 1
    IN  IF a = "nan" \/ b = "nan" THEN "nan"
        ELSE IF a \in {"inf", "-inf"} /\ b \in {"inf", "-inf"} THEN "nan"
        ELSE IF b = "zero"
             THEN (IF a = "zero" THEN "nan"
                   ELSE IF sa_ > 0 THEN "inf" ELSE "-inf")
        ELSE IF b \in {"inf", "-inf"} \/ a = "zero" THEN "zero"
        ELSE IF a \in {"inf", "-inf"}
             THEN (IF sa_ * sb_ > 0 THEN "inf" ELSE "-inf")
        ELSE IF sa_ * sb_ > 0 THEN "pos" ELSE "neg"

\* the class of a number
NumClass(x) ==
    IF IsNaN(x) THEN "nan"
    ELSE IF IsInf(x) THEN (IF x.n > 0 THEN "inf" ELSE "-inf")
    ELSE IF x.n = 0 THEN "zero"
    ELSE IF x.n > 0 THEN "pos" ELSE "neg"

\* line 379: npf.nper(rate, pmt, pv) with fv = 0 and payments at the end of
\* a period.  rate = 0: -pv / pmt.  Otherwise, with z = pmt / rate,
\* log(z / (pv + z)) / log(1 + rate); the result is given by its class and
\* the arguments q and base of the two logarithms.
Nper(rate, pmt, pv) ==
    IF IsZero(rate)
    THEN LET A == Div(Neg(pv), pmt)
         IN  [class |-> NumClass(A), num |-> A, q |-> NaN, base |-> NaN]
    ELSE LET z == Div(pmt, rate)
             q == Div(z, Add(pv, z))
             base == Add(I(1), rate)
         IN  [class |-> QuotientClass(LogClass(q), LogClass(base)),
              num |-> NaN, q |-> q, base |-> base]

\* variant: the AGV's missions counted with the vehicle's capacity
AGVDailyMissionsByVehicleCapacity(s) ==
    DailyMissions(s.inp["material_to_move"],
                  s.veh["vehicle_material_capacity"])

\* lines 300-302: number of missions the AGV drives per day
AGVDailyMissions(s) ==
    DailyMissions(s.inp["material_to_move"], s.agv["agv_material_capacity"])

\* the first statement of the body that raises, if any (0: none)
RaisesAt(s) ==
    IF PyDivRaises(s.inp["material_to_move"],
                   s.veh["vehicle_material_capacity"]) THEN 265
    ELSE IF PyDivRaises(s.inp["material_to_move"],
                        s.agv["agv_material_capacity"]) THEN 301
    ELSE 0

\* lines 253-395, for a call that raises nowhere.  The result holds the
\* Output (min_savings is not represented) and, for observation,
\* the function's local variables under their source names.
Body(s) ==
    LET days == s.inp["yearly_operation_days"]
        years == s.as["years_of_operation"]
        \* human operated vehicle, lines 262-296
        VehicleDailyMissions ==
            DailyMissions(s.inp["material_to_move"],
                          s.veh["vehicle_material_capacity"])
        VehicleDailyDistance ==
            Mul(s.inp["mission_length"], VehicleDailyMissions)
        VehicleDailyTime ==
            Div(VehicleDailyDistance, s.veh["vehicle_average_speed"])
        NumberOfVehicles ==
            FleetSize(VehicleDailyTime, s.veh["vehicle_max_shift_length"])
        VehiclePurchasePrice == Mul(NumberOfVehicles, s.veh["vehicle_cost"])
        VehicleEnergyCost ==
            Mul(Mul(Mul(Div(s.veh["vehicle_energy_consumption"], I(100)),
                        s.as["diesel_price"]),
                    VehicleDailyDistance),
                days)
        VehicleOperatorCost ==
            Mul(Mul(VehicleDailyTime, s.veh["operator_hourly_wage"]), days)
        VehicleAnnualOperationCost ==
            Add(VehicleEnergyCost, VehicleOperatorCost)
        VehicleAnnualMaintenanceCost ==
            Mul(s.veh["vehicle_maintainance"], I(12))
        VehicleAnnualCost ==
            Mul(NumberOfVehicles,
                Add(VehicleAnnualOperationCost, VehicleAnnualMaintenanceCost))
        VehicleEndOfLifeCost ==
            Mul(NumberOfVehicles, s.veh["vehicle_eol_cost"])
        \* AGV, lines 298-351
        AGVDailyDistance ==
            Mul(s.inp["mission_length"], AGVDailyMissions(s))
        AGVDailyEnergy ==
            Mul(AGVDailyDistance, s.agv["agv_energy_consumption"])
        AGVDailyTime ==
            AGVTime(AGVDailyDistance, s.agv["agv_average_speed"],
                    AGVDailyEnergy, s.agv["agv_charge_rate"])
        NumberOfAGVs == FleetSize(AGVDailyTime, s.agv["agv_max_shift_length"])
        AGVPurchasePrice == Mul(NumberOfAGVs, s.agv["agv_cost"])
        AGVLeasingPrice == Mul(NumberOfAGVs, s.agv["agv_leasing"])
        AGVEnegyCost ==
            Mul(Mul(Mul(s.as["electricity_price"],
                        s.agv["agv_energy_consumption"]),
                    AGVDailyDistance),
                days)
        AGVDataCost ==
            Mul(Mul(s.as["data_carriage"], s.agv["agv_data_use"]), days)
        AGVCostPerDisengagement ==
            Mul(Div(s.agv["agv_disengagement_time"], I(60)),
                s.veh["operator_hourly_wage"])
        AGVDisengagementCost ==
            Mul(Mul(Mul(s.agv["agv_disengagement_per_km"],
                        AGVCostPerDisengagement),
                    AGVDailyDistance),
                days)
        AGVAnnualOperationCost ==
            Add(Add(AGVEnegyCost, AGVDataCost), AGVDisengagementCost)
        AGVAnnualMaintenanceCost == Mul(s.agv["agv_maintenance"], I(12))
        AGVAnnualCost ==
            Add(Mul(NumberOfAGVs,
                    Add(AGVAnnualOperationCost, AGVAnnualMaintenanceCost)),
                AGVLeasingPrice)
        AGVEndOfLifeCost == Mul(NumberOfAGVs, s.agv["agv_eol_cost"])
        \* comparison, lines 353-373
        InvestmentCost == Investment(VehiclePurchasePrice, AGVPurchasePrice)
        AnnualSavings == Sub(VehicleAnnualCost, AGVAnnualCost)
        EndOfLifePrice == Sub(VehicleEndOfLifeCost, AGVEndOfLifeCost)
        cashFlows ==
            CashFlowList(InvestmentCost, AnnualSavings, EndOfLifePrice, years)
        npv == Npv(s.as["discount_rate"], cashFlows)
    IN  [out |->
            [annual_savings |-> AnnualSavings,
             cumulative_vehicle_annual_cost |->
                 Mul(VehicleAnnualOperationCost, years),
             cumulative_agv_annual_cost |->
                 Mul(AGVAnnualOperationCost, years),
             cash_flows |-> cashFlows,
             npv |-> npv,
             nper |-> Nper(s.as["discount_rate"], AnnualSavings,
                           InvestmentCost),
             num_robots |-> NumberOfAGVs],
         loc |->
            [VehicleDailyMissions |-> VehicleDailyMissions,
             VehicleDailyTime |-> VehicleDailyTime,
             NumberOfVehicles |-> NumberOfVehicles,
             VehiclePurchasePrice |-> VehiclePurchasePrice,
             VehicleAnnualCost |-> VehicleAnnualCost,
             VehicleEndOfLifeCost |-> VehicleEndOfLifeCost,
             AGVDailyMissions |-> AGVDailyMissions(s),
             AGVDailyTime |-> AGVDailyTime,
             NumberOfAGVs |-> NumberOfAGVs,
             AGVPurchasePrice |-> AGVPurchasePrice,
             AGVLeasingPrice |-> AGVLeasingPrice,
             AGVAnnualOperationCost |-> AGVAnnualOperationCost,
             AGVAnnualCost |-> AGVAnnualCost,
             AGVEndOfLifeCost |-> AGVEndOfLifeCost,
             InvestmentCost |-> InvestmentCost,
             EndOfLifePrice |-> EndOfLifePrice],
         warned |-> FinancingWarning(AGVPurchasePrice, AGVLeasingPrice)]

\* The whole call on the store s0: args is the store passed in, store the
\* store afterwards (the clamps are applied even when a later statement
\* raises), and either the Output or the exception.
ModelAGVUseCase(s0) ==
    LET s == SanityCheck(s0)
    IN  IF RaisesAt(s) # 0
        THEN [status |-> "ZeroDivisionError", args |-> s0, store |-> s,
              line |-> RaisesAt(s)]
        ELSE LET b == Body(s)
             IN  [status |-> "returned", args |-> s0, store |-> s,
                  out |-> b.out, loc |-> b.loc, warned |-> b.warned]

----------------------------------------------------------------------------
(* ModelAGVMission (lines 185-250).                                        *)

\* np.exp at the arguments 0.517 * tr, -0.679 * tr and -1.083 * tr for
\* tr in 0..10 and tr = 20, as <<n, d, vn, vd>>: exp(n/d) is vn/vd, rounded
\* to three significant digits and at most six decimal places
ExpPoints ==
    {<<-1083, 50, 0, 1>>, <<-679, 50, 1, 1000000>>,
     <<-1083, 100, 1, 50000>>, <<-9747, 1000, 29, 500000>>,
     <<-1083, 125, 173, 1000000>>, <<-7581, 1000, 51, 100000>>,
     <<-679, 100, 7, 6250>>, <<-3249, 500, 151, 100000>>,
     <<-6111, 1000, 111, 50000>>, <<-679, 125, 437, 100000>>,
     <<-1083, 200, 89, 20000>>, <<-4753, 1000, 863, 100000>>,
     <<-1083, 250, 131, 10000>>, <<-2037, 500, 17, 1000>>,
     <<-679, 200, 67, 2000>>, <<-3249, 1000, 97, 2500>>,
     <<-679, 250, 661, 10000>>, <<-1083, 500, 23, 200>>,
     <<-2037, 1000, 13, 100>>, <<-679, 500, 257, 1000>>,
     <<-1083, 1000, 339, 1000>>, <<-679, 1000, 507, 1000>>, <<0, 1, 1, 1>>,
     <<517, 1000, 42, 25>>, <<517, 500, 281, 100>>,
     <<1551, 1000, 118, 25>>, <<517, 250, 791, 100>>,
     <<517, 200, 133, 10>>, <<1551, 500, 111, 5>>, <<3619, 1000, 373, 10>>,
     <<517, 125, 313, 5>>, <<4653, 1000, 105, 1>>, <<517, 100, 176, 1>>,
     <<517, 50, 30900, 1>>}

\* np.exp: float64 overflows to inf above 709.78 and underflows to 0 below
\* -745.13; nan passes through
Exp(x) ==
    IF IsNaN(x) THEN NaN
    ELSE IF Gt(x, I(709)) THEN [n |-> 1, d |-> 0]
    ELSE IF Lt(x, I(-745)) THEN I(0)
    ELSE LET p == CHOOSE q \in ExpPoints : q[1] = x.n /\ q[2] = x.d
         IN  Rat(p[3], p[4])

\* variant: the value is only capped at 1
ClampAcceptanceUpperOnly(v) ==
    Np(IF Gt(v, I(1)) THEN I(1) ELSE Val(v))

\* lines 218-226: np.clip(value, 0.1, 1)
ClampAcceptance(v) == Np(Clip(v, Rat(1, 10), I(1)))

\* variant: the speed is only capped from above
ClampAverageSpeedUpperOnly(v) == IF Gt(v, I(64)) THEN I(64) ELSE Val(v)

\* line 246
ClampAverageSpeed(v) == Clip(v, Rat(1, 2), I(64))

\* line 247
ClampDisengagementsPerKm(v) == Clip(v, Rat(8, 10000), I(2))

\* line 248
ClampTimePerDisengagement(v) == Clip(v, Rat(1, 2), I(120))

\* The whole call on the store s0: the three acceptance assumptions are
\* clamped in place, and the clamped triple is returned.
ModelAGVMission(s0) ==
    LET s == [s0 EXCEPT
                 !.as["company_acceptance"] =
                     ClampAcceptance(s0.as["company_acceptance"]),
                 !.as["mission_similarity"] =
                     ClampAcceptance(s0.as["mission_similarity"]),
                 !.as["mission_determinism"] =
                     ClampAcceptance(s0.as["mission_determinism"])]
        tr == s.as["technology_readiness"]
        \* lines 227-233
        AverageSpeed ==
            Mul(Mul(Mul(Mul(Rat(1, 2), Rat(7544, 10000)),
                        Exp(Mul(Rat(517, 1000), tr))),
                    s.as["mission_similarity"]),
                s.as["mission_determinism"])
        \* lines 234-236
        TimePerDisengagement ==
            Mul(Rat(24316, 100), Exp(Mul(Rat(-679, 1000), tr)))
        \* lines 238-243
        DisengagementsPerKm ==
            Div(Div(Mul(Rat(5133, 1000), Exp(Mul(Rat(-1083, 1000), tr))),
                    s.as["company_acceptance"]),
                s.as["mission_determinism"])
    IN  [status |-> "mission", args |-> s0, store |-> s,
         AverageSpeed |-> ClampAverageSpeed(AverageSpeed),
         DisengagementsPerKm |-> ClampDisengagementsPerKm(DisengagementsPerKm),
         TimePerDisengagement |->
             ClampTimePerDisengagement(TimePerDisengagement)]

----------------------------------------------------------------------------
(* SenstivityAnalysis: the offset vector (lines 547-550).                  *)

\* np.linspace(start, stop, num) for num >= 0: start + j * step
Linspace(start, stop, num) ==
    [j \in 1..num |->
        IF num = 1 THEN start
        ELSE Add(start, Mul(I(j - 1), Div(Sub(stop, start), I(num - 1))))]

\* np.insert(vec, idx, x) for 0 <= idx <= len(vec): x placed before vec[idx]
Insert(vec, idx, x) ==
    [j \in 1..(Len(vec) + 1) |->
        IF j <= idx THEN vec[j] ELSE IF j = idx + 1 THEN x ELSE vec[j - 1]]

\* variant: the 0% entry appended at the end instead of the midpoint
MinMaxVecAppended(minMaxPerc, numLevels) ==
    LET lin == Linspace(I(-minMaxPerc), I(minMaxPerc), numLevels)
        vec == [j \in 1..numLevels |-> Div(lin[j], I(100))]
    IN  Insert(vec, numLevels, I(0))

\* lines 547-550; int(numLevels / 2) truncates the float quotient
MinMaxVec(minMaxPerc, numLevels) ==
    LET lin == Linspace(I(-minMaxPerc), I(minMaxPerc), numLevels)
        vec == [j \in 1..numLevels |-> Div(lin[j], I(100))]
    IN  Insert(vec, Trunc(Rat(numLevels, 2)).n, I(0))

\* lines 551-560, 563-574, 580-587: the record that owns the attribute,
\* first match in the order assumptions, inputs, inputs.vehicle, inputs.agv
Owner(s, key) ==
    IF HasAttr(s.as, key) THEN "as"
    ELSE IF HasAttr(s.inp, key) THEN "inp"
    ELSE IF HasAttr(s.veh, key) THEN "veh"
    ELSE IF HasAttr(s.agv, key) THEN "agv"
    ELSE "none"

GetAttr(s, key) == s[Owner(s, key)][key]

SetAttr(s, key, v) == [s EXCEPT ![Owner(s, key)][key] = v]

\* variant: the offset used as the factor, origKey * perc
PerturbedByOffset(origKey, perc) == Np(Mul(origKey, perc))

\* origKey * (1 + perc): perc is a numpy float64, so is the product
Perturbed(origKey, perc) == Np(Mul(origKey, Add(I(1), perc)))

\* min(valVec), max(valVec) of a non-empty list
MinOf(vec) ==
    CHOOSE x \in {vec[j] : j \in 1..Len(vec)} :
        \A y \in {vec[j] : j \in 1..Len(vec)} : Le(x, y)

MaxOf(vec) ==
    CHOOSE x \in {vec[j] : j \in 1..Len(vec)} :
        \A y \in {vec[j] : j \in 1..Len(vec)} : Ge(x, y)

----------------------------------------------------------------------------
(* Bounds and input domains.                                               *)

\* numLevels ranges over 0..MaxLevels
MaxLevels == 3

\* the minMaxPerc values tried
Percents == {0, 50, 100}

\* every attribute name of the four records, and one name that none has
AllKeys ==
    AssumptionFields \cup InputFields \cup VehicleFields \cup AgvFields
        \cup {"no_such_field"}

\* sequential runs of SenstivityAnalysis use frame 1
Runs == {1}

\* A small-number record set (all attributes Python numbers).
BaseAssumptions ==
    [f \in AssumptionFields |->
        CASE f = "discount_rate"        -> PyR(1, 2)
          [] f = "electricity_price"    -> PyR(1, 2)
          [] f = "diesel_price"         -> PyI(2)
          [] f = "diesel_energy"        -> PyR(96, 100)
          [] f = "data_carriage"        -> PyR(1, 2)
          [] f = "years_of_operation"   -> PyI(3)
          [] f = "technology_readiness" -> PyI(8)
          [] f = "company_acceptance"   -> PyR(7, 10)
          [] f = "mission_similarity"   -> PyR(8, 10)
          [] f = "mission_determinism"  -> PyR(6, 10)]

BaseInputs ==
    [f \in InputFields |->
        CASE f = "mission_length"        -> PyI(2)
          [] f = "material_to_move"      -> PyI(5)
          [] f = "yearly_operation_days" -> PyI(2)
          [] f = "vehicle"               -> Obj
          [] f = "agv"                   -> Obj]

BaseVehicle ==
    [f \in VehicleFields |->
        CASE f = "vehicle_cost"               -> PyI(74)
          [] f = "vehicle_energy_consumption" -> PyI(50)
          [] f = "operator_hourly_wage"       -> PyI(4)
          [] f = "vehicle_maintainance"       -> PyI(1)
          [] f = "vehicle_eol_cost"           -> PyI(2)
          [] f = "vehicle_average_speed"      -> PyI(4)
          [] f = "vehicle_material_capacity"  -> PyI(2)
          [] f = "vehicle_max_shift_length"   -> PyI(1)]

BaseAgv ==
    [f \in AgvFields |->
        CASE f = "agv_cost"                 -> PyI(115)
          [] f = "agv_leasing"              -> PyI(0)
          [] f = "agv_maintenance"          -> PyI(2)
          [] f = "agv_eol_cost"             -> PyI(4)
          [] f = "agv_average_speed"        -> PyI(3)
          [] f = "agv_charge_rate"          -> PyI(3)
          [] f = "agv_disengagement_per_km" -> PyR(1, 10)
          [] f = "agv_disengagement_time"   -> PyI(30)
          [] f = "agv_material_capacity"    -> PyI(1)
          [] f = "agv_energy_consumption"   -> PyR(1, 2)
          [] f = "agv_max_shift_length"     -> PyI(4)
          [] f = "agv_data_use"             -> PyI(4)]

BaseStore ==
    [as |-> BaseAssumptions, inp |-> BaseInputs,
     veh |-> BaseVehicle, agv |-> BaseAgv]

\* the record sets a run starts from: the base set and one-field variants
Scenarios ==
    {BaseStore,
     [BaseStore EXCEPT !.inp["material_to_move"] = PyI(0)],
     [BaseStore EXCEPT !.inp["mission_length"] = PyI(0)],
     [BaseStore EXCEPT !.inp["yearly_operation_days"] = PyI(400)],
     [BaseStore EXCEPT !.inp["yearly_operation_days"] = PyI(0)],
     [BaseStore EXCEPT !.as["diesel_energy"] = PyR(96, 10)],
     [BaseStore EXCEPT !.veh["vehicle_material_capacity"] = PyI(0)],
     [BaseStore EXCEPT !.agv["agv_material_capacity"] = PyI(0)],
     [BaseStore EXCEPT !.veh["vehicle_average_speed"] = PyI(0)],
     [BaseStore EXCEPT !.veh["vehicle_average_speed"] = PyI(-4)],
     [BaseStore EXCEPT !.agv["agv_max_shift_length"] = PyI(-4)],
     [BaseStore EXCEPT !.agv["agv_leasing"] = PyI(7)]}

----------------------------------------------------------------------------
(* State.                                                                  *)

VARIABLES
    assumptions,  \* the Assumption object
    inputs,       \* the Input object (scalar attributes)
    vehicle,      \* inputs.vehicle
    agv,          \* inputs.agv
    sa,           \* per run: the frame of SenstivityAnalysis
    ret           \* the last evaluation of ModelAGVUseCase

vars == <<assumptions, inputs, vehicle, agv, sa, ret>>

Store == [as |-> assumptions, inp |-> inputs, veh |-> vehicle, agv |-> agv]

SetStore(s) ==
    /\ assumptions' = s.as
    /\ inputs' = s.inp
    /\ vehicle' = s.veh
    /\ agv' = s.agv

IdleFrame(s) ==
    [status |-> "idle", exc |-> "none", key |-> "", numLevels |-> 0,
     minMaxPerc |-> 0, minMaxVec |-> <<>>, origKey |-> Obj, k |-> 0,
     valVec |-> <<>>, npvVec |-> <<>>, minMaxVals |-> <<>>,
     evals |-> 0, pre |-> s]

NoRet == [status |-> "none"]

\* an uncaught exception ends the program
Crashed ==
    \/ ret.status = "ZeroDivisionError"
    \/ \E r \in DOMAIN sa : sa[r].status = "raised"

Init ==
    /\ \E s \in Scenarios :
          /\ assumptions = s.as
          /\ inputs = s.inp
          /\ vehicle = s.veh
          /\ agv = s.agv
          /\ sa = [r \in Runs |-> IdleFrame(s)]
    /\ ret = NoRet

\* the caller is between two statements and holds no results
Quiescent ==
    /\ ret = NoRet
    /\ \A r \in DOMAIN sa : sa[r].status = "idle"

----------------------------------------------------------------------------
(* Operations.                                                             *)

\* A direct evaluation, as in the main script:
\* outputs = ModelAGVUseCase(assumptions, inputs)
ModelCall ==
    /\ Quiescent
    /\ \E res \in {ModelAGVUseCase(Store)} :
          /\ SetStore(res.store)
          /\ ret' = res
    /\ UNCHANGED sa

\* variant: no 'Key not found' check, the loop is entered for any key
CallFrameUnchecked(s, key, minMaxPerc, numLevels) ==
    [IdleFrame(s) EXCEPT
        !.status = "running", !.key = key,
        !.numLevels = numLevels, !.minMaxPerc = minMaxPerc,
        !.minMaxVec = MinMaxVec(minMaxPerc, numLevels),
        !.origKey = IF Owner(s, key) = "none" THEN Obj ELSE GetAttr(s, key),
        !.k = 1]

\* SenstivityAnalysis, lines 545-560: the frame after the offsets are built
\* and the key is looked up; 'Key not found' is raised before any trial
CallFrame(s, key, minMaxPerc, numLevels) ==
    IF Owner(s, key) = "none"
    THEN [IdleFrame(s) EXCEPT
             !.status = "raised", !.exc = "KeyNotFound", !.key = key,
             !.numLevels = numLevels, !.minMaxPerc = minMaxPerc,
             !.minMaxVec = MinMaxVec(minMaxPerc, numLevels)]
    ELSE [IdleFrame(s) EXCEPT
             !.status = "running", !.key = key,
             !.numLevels = numLevels, !.minMaxPerc = minMaxPerc,
             !.minMaxVec = MinMaxVec(minMaxPerc, numLevels),
             !.origKey = GetAttr(s, key), !.k = 1]

\* SenstivityAnalysis is called (main script, line 269)
SA_Call(r, key, minMaxPerc, numLevels) ==
    /\ Quiescent
    /\ sa' = [sa EXCEPT ![r] = CallFrame(Store, key, minMaxPerc, numLevels)]
    /\ UNCHANGED <<assumptions, inputs, vehicle, agv, ret>>

\* variant: the last trial's value is left in the attribute
RestoredLastTrial(f) == Perturbed(f.origKey, f.minMaxVec[Len(f.minMaxVec)])

\* the value written back after the loop, lines 580-587
Restored(f) == f.origKey

\* variant: a trial starts from the attribute's current value
TrialBaseCurrent(f, s) == GetAttr(s, f.key)

\* the value a trial starts from, lines 564-573: the saved origKey
TrialBase(f, s) == f.origKey

\* variant: the attribute is written back at the end of every iteration
TrialStoreRestoring(f, res) == SetAttr(res.store, f.key, f.origKey)

\* the records at the end of an iteration, lines 576-578: as the evaluation
\* left them (the loop body does not write the attribute back)
TrialStore(f, res) == res.store

\* SenstivityAnalysis, lines 562-578: one iteration of the loop
SA_Trial(r) ==
    LET f == sa[r] IN
    /\ f.status = "running"
    /\ f.k <= Len(f.minMaxVec)
    /\ IF TrialBase(f, Store).t = "obj"
       THEN \* origKey * (1 + perc) on a nested record object
            /\ sa' = [sa EXCEPT ![r].status = "raised",
                                ![r].exc = "TypeError"]
            /\ UNCHANGED <<assumptions, inputs, vehicle, agv, ret>>
       ELSE \E s1 \in {SetAttr(Store, f.key,
                              Perturbed(TrialBase(f, Store), f.minMaxVec[f.k]))} :
            \E res \in {ModelAGVUseCase(s1)} :
            \E vv \in {Append(f.valVec, Val(GetAttr(s1, f.key)))} :
                /\ SetStore(TrialStore(f, res))
                /\ ret' = res
                /\ sa' = [sa EXCEPT ![r] =
                      IF res.status = "returned"
                      THEN [f EXCEPT !.valVec = vv,
                                     !.npvVec = Append(f.npvVec, res.out.npv),
                                     !.minMaxVals = <<MinOf(vv), MaxOf(vv)>>,
                                     !.evals = f.evals + 1,
                                     !.k = f.k + 1]
                      ELSE [f EXCEPT !.valVec = vv,
                                     !.evals = f.evals + 1,
                                     !.status = "raised",
                                     !.exc = res.status]]

\* SenstivityAnalysis, lines 580-589: restore the attribute and return
SA_Return(r) ==
    LET f == sa[r] IN
    /\ f.status = "running"
    /\ f.k > Len(f.minMaxVec)
    /\ SetStore(SetAttr(Store, f.key, Restored(f)))
    /\ sa' = [sa EXCEPT ![r].status = "returned"]
    /\ UNCHANGED ret

\* The caller moves on to its next statement: the names bound to the last
\* results are rebound (main script, loop at lines 268-272).
Proceed ==
    /\ ~Crashed
    /\ ~Quiescent
    /\ \A r \in DOMAIN sa : sa[r].status # "running"
    /\ sa' = [r \in DOMAIN sa |-> IdleFrame(Store)]
    /\ ret' = NoRet
    /\ UNCHANGED <<assumptions, inputs, vehicle, agv>>

Next ==
    \/ ModelCall
    \/ Proceed
    \/ \E r \in Runs, key \in AllKeys, p \in Percents, n \in 0..MaxLevels :
          SA_Call(r, key, p, n)
    \/ \E r \in Runs : SA_Trial(r)
    \/ \E r \in Runs : SA_Return(r)

Spec == Init /\ [][Next]_vars

----------------------------------------------------------------------------
(* Direct evaluations over a grid of record sets.  The caller builds the   *)
(* records (main script, lines 90-101 and 188-216) and evaluates them      *)
(* (line 223); the grid varies the fields the cash flows depend on.        *)

\* the record set of the main script's inputs in the fields that size the
\* fleets and price the purchase (lines 153-185)
BaselineSizing ==
    [BaseStore EXCEPT
        !.inp["mission_length"] = PyI(2),
        !.inp["material_to_move"] = PyI(200),
        !.inp["yearly_operation_days"] = PyI(212),
        !.veh["vehicle_average_speed"] = PyI(12),
        !.veh["vehicle_material_capacity"] = PyI(40),
        !.veh["vehicle_max_shift_length"] = PyI(8),
        !.veh["vehicle_cost"] = PyI(74000),
        !.agv["agv_average_speed"] = PyI(3),
        !.agv["agv_charge_rate"] = PyI(3),
        !.agv["agv_material_capacity"] = PyI(20),
        !.agv["agv_energy_consumption"] = PyR(14, 100),
        !.agv["agv_max_shift_length"] = PyI(24),
        !.agv["agv_cost"] = PyI(115000),
        !.agv["agv_leasing"] = PyI(0)]

EvalStores ==
    {[BaseStore EXCEPT
         !.agv["agv_cost"] = cost,
         !.agv["agv_leasing"] = leasing,
         !.as["discount_rate"] = rate,
         !.veh["vehicle_average_speed"] = speed,
         !.veh["operator_hourly_wage"] = wage] :
         cost \in {PyI(115), PyI(60), PyI(0), PyI(-115)},
         leasing \in {PyI(0), PyI(7)},
         rate \in {PyI(0), PyR(1, 2), PyI(-1)},
         speed \in {PyI(4), PyI(0)},
         wage \in {PyI(4), PyI(0)}}
        \cup {BaselineSizing}

EvalInit ==
    /\ \E s \in EvalStores :
          /\ assumptions = s.as
          /\ inputs = s.inp
          /\ vehicle = s.veh
          /\ agv = s.agv
          /\ sa = [r \in Runs |-> IdleFrame(s)]
    /\ ret = NoRet

EvalNext ==
    \/ ModelCall
    \/ Proceed

EvalSpec == EvalInit /\ [][EvalNext]_vars

----------------------------------------------------------------------------
(* Calls of ModelAGVMission over a grid of assumptions.                    *)

\* technology_readiness: 0..MaxReadiness, the extreme 20, and values far
\* outside any scale
MaxReadiness == 9

ReadinessValues ==
    {PyI(tr) : tr \in 0..MaxReadiness} \cup {PyI(20), PyI(2000), PyI(-2000)}

\* acceptance values inside, on and outside [0.1, 1]
AcceptanceValues == {PyR(7, 10), PyI(0), PyI(5)}

MissionStores ==
    {[BaseStore EXCEPT
         !.as["technology_readiness"] = tr,
         !.as["company_acceptance"] = ca,
         !.as["mission_similarity"] = ms,
         !.as["mission_determinism"] = md] :
         tr \in ReadinessValues,
         ca \in AcceptanceValues,
         ms \in {PyR(8, 10), PyI(-1)},
         md \in AcceptanceValues}

\* (speed, disengagements, time) = ModelAGVMission(assumptions, inputs),
\* main script lines 347-351
MissionCall ==
    /\ Quiescent
    /\ \E res \in {ModelAGVMission(Store)} :
          /\ SetStore(res.store)
          /\ ret' = res
    /\ UNCHANGED sa

MissionInit ==
    /\ \E s \in MissionStores :
          /\ assumptions = s.as
          /\ inputs = s.inp
          /\ vehicle = s.veh
          /\ agv = s.agv
          /\ sa = [r \in Runs |-> IdleFrame(s)]
    /\ ret = NoRet

MissionNext ==
    \/ MissionCall
    \/ Proceed

MissionSpec == MissionInit /\ [][MissionNext]_vars

----------------------------------------------------------------------------
(* Two runs of SenstivityAnalysis interleaved at the granularity of one    *)
(* loop iteration (lines 562-578), on the same Assumption/Input objects    *)
(* or each on its own deep copy of them.  A frame with the field recs      *)
(* belongs to a run that was handed its own copy.                          *)

TwoRuns == {1, 2}

\* the attributes the two runs are asked to vary
ConcKeys == {"agv_cost", "vehicle_cost", "vehicle"}

ConcPercent == 50

ConcLevels == 2

\* the run operates on its own deep copy of the records
OwnRecords(f) == "recs" \in DOMAIN f

\* both callers pass the same objects, or each passes copy.deepcopy of them
ConcInit ==
    /\ assumptions = BaseStore.as
    /\ inputs = BaseStore.inp
    /\ vehicle = BaseStore.veh
    /\ agv = BaseStore.agv
    /\ \/ sa = [r \in TwoRuns |-> IdleFrame(BaseStore)]
       \/ sa = [r \in TwoRuns |-> IdleFrame(BaseStore) @@ [recs |-> BaseStore]]
    /\ ret = NoRet

\* lines 545-560 for run r, while the other run may be inside its loop
ConcCall(r, key, minMaxPerc, numLevels) ==
    /\ sa[r].status = "idle"
    /\ sa' = [sa EXCEPT ![r] =
                 IF OwnRecords(sa[r])
                 THEN CallFrame(sa[r].recs, key, minMaxPerc, numLevels)
                          @@ [recs |-> sa[r].recs]
                 ELSE CallFrame(Store, key, minMaxPerc, numLevels)]
    /\ UNCHANGED <<assumptions, inputs, vehicle, agv, ret>>

\* lines 562-578 on the run's own copy: one iteration of the loop
CopyTrial(r) ==
    LET f == sa[r] IN
    /\ OwnRecords(f)
    /\ f.status = "running"
    /\ f.k <= Len(f.minMaxVec)
    /\ IF TrialBase(f, f.recs).t = "obj"
       THEN /\ sa' = [sa EXCEPT ![r].status = "raised",
                                ![r].exc = "TypeError"]
            /\ UNCHANGED ret
       ELSE \E s1 \in {SetAttr(f.recs, f.key,
                              Perturbed(TrialBase(f, f.recs),
                                        f.minMaxVec[f.k]))} :
            \E res \in {ModelAGVUseCase(s1)} :
            \E vv \in {Append(f.valVec, Val(GetAttr(s1, f.key)))} :
                /\ ret' = res
                /\ sa' = [sa EXCEPT ![r] =
                      IF res.status = "returned"
                      THEN [f EXCEPT !.valVec = vv,
                                     !.npvVec = Append(f.npvVec, res.out.npv),
                                     !.minMaxVals = <<MinOf(vv), MaxOf(vv)>>,
                                     !.evals = f.evals + 1,
                                     !.k = f.k + 1,
                                     !.recs = TrialStore(f, res)]
                      ELSE [f EXCEPT !.valVec = vv,
                                     !.evals = f.evals + 1,
                                     !.status = "raised",
                                     !.exc = res.status,
                                     !.recs = TrialStore(f, res)]]
    /\ UNCHANGED <<assumptions, inputs, vehicle, agv>>

\* lines 580-589 on the run's own copy
CopyReturn(r) ==
    LET f == sa[r] IN
    /\ OwnRecords(f)
    /\ f.status = "running"
    /\ f.k > Len(f.minMaxVec)
    /\ sa' = [sa EXCEPT ![r].status = "returned",
                        ![r].recs = SetAttr(f.recs, f.key, Restored(f))]
    /\ UNCHANGED <<assumptions, inputs, vehicle, agv, ret>>

ConcNext ==
    \/ \E r \in TwoRuns, key \in ConcKeys :
          ConcCall(r, key, ConcPercent, ConcLevels)
    \/ \E r \in TwoRuns : ~OwnRecords(sa[r]) /\ SA_Trial(r)
    \/ \E r \in TwoRuns : ~OwnRecords(sa[r]) /\ SA_Return(r)
    \/ \E r \in TwoRuns : CopyTrial(r)
    \/ \E r \in TwoRuns : CopyReturn(r)

ConcSpec == ConcInit /\ [][ConcNext]_vars

----------------------------------------------------------------------------
(* The main script's what-if scenarios (lines 221-243).  The records come  *)
(* from the input file (lines 101 and 218); the frame of the script holds  *)
(* its position and, for the properties, the records before line 221.      *)

\* agv_cost and vehicle_average_speed range over 1..MaxCost and 1..MaxSpeed
MaxCost == 9

MaxSpeed == 8

ScenarioStores ==
    {[BaseStore EXCEPT !.agv["agv_cost"] = PyI(c),
                       !.veh["vehicle_average_speed"] = PyI(v)] :
         c \in 1..MaxCost, v \in 1..MaxSpeed}

ScriptFrame(pc, s) == [status |-> pc, pre |-> s]

ScenarioInit ==
    /\ \E s \in ScenarioStores :
          /\ assumptions = s.as
          /\ inputs = s.inp
          /\ vehicle = s.veh
          /\ agv = s.agv
          /\ sa = [r \in Runs |-> ScriptFrame("line 221", s)]
    /\ ret = NoRet

\* int(x) of a number
PyInt(x) == Py(Trunc(x))

\* the three evaluations of the section and the line each is followed by:
\* outputsBaseline (line 222), outputsCheaper (228), outputsSlower (237)
AfterCalculation ==
    [line \in {"line 221", "line 228", "line 237"} |->
        CASE line = "line 221" -> "line 227"
          [] line = "line 228" -> "line 231"
          [] line = "line 237" -> "line 240"]

\* outputs... = ModelAGVUseCase(assumptions, inputs) at one of these lines
Calculation ==
    /\ sa[1].status \in DOMAIN AfterCalculation
    /\ \E res \in {ModelAGVUseCase(Store)} :
          /\ SetStore(res.store)
          /\ ret' = res
          /\ sa' = [sa EXCEPT ![1].status =
                       IF res.status = "returned"
                       THEN AfterCalculation[sa[1].status] ELSE "raised"]

\* line 227: inputs.agv.agv_cost = int(0.75 * inputs.agv.agv_cost)
CheaperSet ==
    /\ sa[1].status = "line 227"
    /\ agv' = [agv EXCEPT !["agv_cost"] = PyInt(Mul(Rat(3, 4), @))]
    /\ sa' = [sa EXCEPT ![1].status = "line 228"]
    /\ UNCHANGED <<assumptions, inputs, vehicle, ret>>

\* lines 231-233: inputs.agv.agv_cost = int(inputs.agv.agv_cost / 0.75)
CheaperReset ==
    /\ sa[1].status = "line 231"
    /\ agv' = [agv EXCEPT !["agv_cost"] = PyInt(Div(@, Rat(3, 4)))]
    /\ sa' = [sa EXCEPT ![1].status = "line 236"]
    /\ UNCHANGED <<assumptions, inputs, vehicle, ret>>

\* line 236: vehicle_average_speed = int(0.25 * vehicle_average_speed)
SlowSet ==
    /\ sa[1].status = "line 236"
    /\ vehicle' = [vehicle EXCEPT
                      !["vehicle_average_speed"] = PyInt(Mul(Rat(1, 4), @))]
    /\ sa' = [sa EXCEPT ![1].status = "line 237"]
    /\ UNCHANGED <<assumptions, inputs, agv, ret>>

\* lines 240-242: vehicle_average_speed = int(vehicle_average_speed / 0.25)
SlowReset ==
    /\ sa[1].status = "line 240"
    /\ vehicle' = [vehicle EXCEPT
                      !["vehicle_average_speed"] = PyInt(Div(@, Rat(1, 4)))]
    /\ sa' = [sa EXCEPT ![1].status = "line 245"]
    /\ UNCHANGED <<assumptions, inputs, agv, ret>>

ScenarioNext ==
    \/ Calculation
    \/ CheaperSet
    \/ CheaperReset
    \/ SlowSet
    \/ SlowReset

ScenarioSpec == ScenarioInit /\ [][ScenarioNext]_vars

----------------------------------------------------------------------------
(* The main script's mission analysis (lines 316-425).  The frame of the   *)
(* script holds the loop variables and, for the properties, the records    *)
(* before the first key.                                                   *)

\* lines 321-326
MissionKeys ==
    <<"technology_readiness", "company_acceptance", "mission_similarity",
      "mission_determinism">>

\* line 317: np.linspace(1, 9, 9)
MinMaxVecTR == Linspace(I(1), I(9), 9)

\* line 316: np.linspace(0.1, 1, 10)
MinMaxVecAcceptance == Linspace(Rat(1, 10), I(1), 10)

\* the values key is stepped through (lines 343-344 and 398-399)
SweepVec(key) ==
    IF key = "technology_readiness" THEN MinMaxVecTR ELSE MinMaxVecAcceptance

\* the records at line 316: read from the input file and normalised by the
\* evaluations before; the acceptance assumptions inside and outside
\* [0.1, 1].  The operator's wage is 0, so that the product of the two
\* exponentials in the disengagement cost stays a representable integer.
MissionLoopStores ==
    {SanityCheck([BaseStore EXCEPT
         !.veh["operator_hourly_wage"] = PyI(0),
         !.as["technology_readiness"] = tr,
         !.as["company_acceptance"] = ca,
         !.as["mission_similarity"] = ms,
         !.as["mission_determinism"] = md]) :
         tr \in {PyI(8), PyI(3)},
         ca \in {PyR(7, 10), PyI(5)},
         ms \in {PyR(8, 10), PyI(-1)},
         md \in {PyR(6, 10), PyI(0)}}

MissionLoopInit ==
    /\ \E s \in MissionLoopStores :
          /\ assumptions = s.as
          /\ inputs = s.inp
          /\ vehicle = s.veh
          /\ agv = s.agv
          /\ sa = [r \in Runs |->
                      [status |-> "line 331", ki |-> 1, k |-> 0,
                       key |-> "", origVal |-> Obj, origSpeed |-> Obj,
                       origDisengagements |-> Obj,
                       origTimePerDisengagement |-> Obj,
                       npvVectorsMission |-> <<>>, minMaxKey |-> <<>>,
                       pre |-> s]]
    /\ ret = NoRet

\* lines 331-340: the next key; the loop variables are initialised
NextMissionKey ==
    LET f == sa[1] IN
    /\ f.status = "line 331"
    /\ f.ki <= Len(MissionKeys)
    /\ sa' = [sa EXCEPT ![1] =
                 [f EXCEPT !.status = "sweep",
                           !.key = MissionKeys[f.ki],
                           !.k = 1,
                           !.origVal = assumptions[MissionKeys[f.ki]],
                           !.origSpeed = agv["agv_average_speed"],
                           !.origDisengagements =
                               agv["agv_disengagement_per_km"],
                           !.origTimePerDisengagement =
                               agv["agv_disengagement_time"],
                           !.npvVectorsMission = <<>>,
                           !.minMaxKey = <<>>]]
    /\ UNCHANGED <<assumptions, inputs, vehicle, agv, ret>>

\* the records with the AGV's mission fields replaced (lines 352-354)
WithMission(s, speed, disengagements, time) ==
    [s EXCEPT !.agv["agv_average_speed"] = speed,
              !.agv["agv_disengagement_per_km"] = disengagements,
              !.agv["agv_disengagement_time"] = time]

\* the records a step evaluates: the swept value set, the AGV's mission
\* fields taken from ModelAGVMission (lines 344-354 and 399-409)
StepStore(s, key, perc) ==
    LET m == ModelAGVMission(SetAttr(s, key, Np(perc)))
    IN  WithMission(m.store, Np(m.AverageSpeed),
                    Np(m.DisengagementsPerKm), Np(m.TimePerDisengagement))

\* variant: the swept assumption is not written back after a step
StepRestoredKeepingSwept(f, s) ==
    WithMission(s, f.origSpeed, f.origDisengagements,
                f.origTimePerDisengagement)

\* the records at the end of a step (lines 360-369 and 415-424)
StepRestored(f, s) ==
    SetAttr(WithMission(s, f.origSpeed, f.origDisengagements,
                        f.origTimePerDisengagement),
            f.key, f.origVal)

\* lines 343-369 and 398-424: one step of the sweep
SweepStep ==
    LET f == sa[1] IN
    /\ f.status = "sweep"
    /\ f.k <= Len(SweepVec(f.key))
    /\ \E s2 \in {StepStore(Store, f.key, SweepVec(f.key)[f.k])} :
       \E res \in {ModelAGVUseCase(s2)} :
          /\ ret' = res
          /\ IF res.status = "returned"
             THEN /\ SetStore(StepRestored(f, res.store))
                  /\ sa' = [sa EXCEPT ![1] =
                            [f EXCEPT
                                !.k = f.k + 1,
                                !.minMaxKey =
                                    Append(f.minMaxKey,
                                           SweepVec(f.key)[f.k]),
                                !.npvVectorsMission =
                                    Append(f.npvVectorsMission,
                                           res.out.npv)]]
             ELSE /\ SetStore(res.store)
                  /\ sa' = [sa EXCEPT ![1].status = "raised"]

\* lines 370-396 and 425-452: the key's curves are plotted
SweepEnd ==
    LET f == sa[1] IN
    /\ f.status = "sweep"
    /\ f.k > Len(SweepVec(f.key))
    /\ sa' = [sa EXCEPT ![1].status =
                 IF f.ki = Len(MissionKeys) THEN "line 454" ELSE "line 331",
                        ![1].ki = f.ki + 1]
    /\ UNCHANGED <<assumptions, inputs, vehicle, agv, ret>>

MissionLoopNext ==
    \/ NextMissionKey
    \/ SweepStep
    \/ SweepEnd

MissionLoopSpec == MissionLoopInit /\ [][MissionLoopNext]_vars

----------------------------------------------------------------------------
(* The script variant AGVUseCaseModel.py: the records are dictionaries,    *)
(* and the module's ModelAGVUseCase reads discountRate and                 *)
(* YearsOfOperation as module-level names.                                 *)

\* lines 75-85
ScriptAssumptions ==
    [discountRate |-> PyR(1, 2), electricityPrice |-> PyR(1, 2),
     dieselPrice |-> PyI(2), dieselEnergy |-> PyR(96, 100),
     dataCarriage |-> PyR(1, 2), YearsOfOperation |-> PyI(3),
     TechnologyReadiness |-> PyI(5), CompanyAcceptance |-> PyR(7, 10),
     MissionSimilarity |-> PyR(8, 10), MissionDeterminism |-> PyR(6, 10)]

\* lines 161-188
ScriptInputs ==
    [MissionLength |-> PyI(2), MaterialToMove |-> PyI(5),
     YearlyOperationDays |-> PyI(2), Vehicle |-> Obj, AGV |-> Obj]

\* lines 165-174
ScriptVehicle ==
    [VehicleAverageSpeed |-> PyI(4), VehicleMaterialCapacity |-> PyI(2),
     VehicleMaxShiftLength |-> PyI(1), VehicleCost |-> PyI(74),
     VehicleEnergyConsumption |-> PyI(50), OperatorHourlyWage |-> PyI(4),
     VehicleMaintenance |-> PyI(1), VehicleEOLCost |-> PyI(2)]

\* lines 175-187
ScriptAGV ==
    [AGVAverageSpeed |-> PyI(3), AGVChargeRate |-> PyI(3),
     AGVMaterialCapacity |-> PyI(1), AGVEnergyConsumption |-> PyR(1, 2),
     AGVMaxShiftLength |-> PyI(4), AGVDataUse |-> PyI(4),
     AGVCost |-> PyI(115), AGVDisengagementPerKm |-> PyR(1, 10),
     AGVDisengagementTime |-> PyI(30), AGVMaintenance |-> PyI(2),
     AGVEOLCost |-> PyI(4)]

ScriptStore ==
    [as |-> ScriptAssumptions, inp |-> ScriptInputs,
     veh |-> ScriptVehicle, agv |-> ScriptAGV]

\* the module-level names the functions read (lines 57 and 65); the
\* dictionary entries are set from them (lines 76 and 81)
ScriptGlobals ==
    [discountRate |-> Val(ScriptAssumptions["discountRate"]),
     YearsOfOperation |-> Val(ScriptAssumptions["YearsOfOperation"])]

\* lines 447-457, and the two nested dictionaries
ScriptKeys ==
    ((DOMAIN ScriptAssumptions \cup DOMAIN ScriptVehicle
        \cup DOMAIN ScriptAGV
        \cup {"MissionLength", "MaterialToMove", "YearlyOperationDays"})
     \ {"dieselEnergy", "TechnologyReadiness", "CompanyAcceptance",
        "MissionSimilarity", "MissionDeterminism"})
    \cup {"Vehicle", "AGV"}

\* np.round: to the nearest integer, a half to the even neighbour
RoundHalfEven(x) ==
    IF ~IsFinite(x) THEN Val(x)
    ELSE LET lo == x.n \div x.d
             twice == 2 * (x.n - lo * x.d)
         IN  IF twice < x.d THEN I(lo)
             ELSE IF twice > x.d THEN I(lo + 1)
             ELSE IF lo % 2 = 0 THEN I(lo) ELSE I(lo + 1)

\* lines 236-237: the in-place clamps (no conversion to int)
ScriptSanityCheck(s) ==
    [s EXCEPT !.inp["YearlyOperationDays"] =
                  Np(Clip(s.inp["YearlyOperationDays"], I(1), I(365))),
              !.as["dieselEnergy"] =
                  ClampDieselEnergy(s.as["dieselEnergy"])]

\* the first statement that raises ZeroDivisionError, if any (0: none)
ScriptRaisesAt(s) ==
    IF PyDivRaises(s.inp["MaterialToMove"],
                   s.veh["VehicleMaterialCapacity"]) THEN 241
    ELSE IF PyDivRaises(s.inp["MaterialToMove"],
                        s.agv["AGVMaterialCapacity"]) THEN 258
    ELSE 0

\* lines 239-307: the outputs dictionary (minSavings is not represented);
\* g holds the module-level discountRate and YearsOfOperation
ScriptBody(s, g) ==
    LET days == s.inp["YearlyOperationDays"]
        VehicleDailyMissions ==
            RoundHalfEven(Div(s.inp["MaterialToMove"],
                              s.veh["VehicleMaterialCapacity"]))
        VehicleDailyDistance ==
            Mul(s.inp["MissionLength"], VehicleDailyMissions)
        VehicleDailyTime ==
            Div(VehicleDailyDistance, s.veh["VehicleAverageSpeed"])
        NumberOfVehicles ==
            Ceil(Div(VehicleDailyTime, s.veh["VehicleMaxShiftLength"]))
        VehiclePurchasePrice == Mul(NumberOfVehicles, s.veh["VehicleCost"])
        VehicleEnergyCost ==
            Mul(Mul(Mul(Div(s.veh["VehicleEnergyConsumption"], I(100)),
                        s.as["dieselPrice"]),
                    VehicleDailyDistance),
                days)
        VehicleOperatorCost ==
            Mul(Mul(VehicleDailyTime, s.veh["OperatorHourlyWage"]), days)
        VehicleAnnualOperationCost ==
            Add(VehicleEnergyCost, VehicleOperatorCost)
        VehicleAnnualMaintenanceCost ==
            Mul(s.veh["VehicleMaintenance"], I(12))
        VehicleAnnualCost ==
            Mul(NumberOfVehicles,
                Add(VehicleAnnualOperationCost, VehicleAnnualMaintenanceCost))
        VehicleEndOfLifeCost ==
            Mul(NumberOfVehicles, s.veh["VehicleEOLCost"])
        AGVDailyMissionsScript ==
            RoundHalfEven(Div(s.inp["MaterialToMove"],
                              s.agv["AGVMaterialCapacity"]))
        AGVDailyDistance == Mul(s.inp["MissionLength"], AGVDailyMissionsScript)
        AGVDailyEnergy ==
            Mul(AGVDailyDistance, s.agv["AGVEnergyConsumption"])
        AGVDailyTime ==
            Add(Div(AGVDailyDistance, s.agv["AGVAverageSpeed"]),
                Div(AGVDailyEnergy, s.agv["AGVChargeRate"]))
        NumberOfAGVs == Ceil(Div(AGVDailyTime, s.agv["AGVMaxShiftLength"]))
        AGVPurchasePrice == Mul(NumberOfAGVs, s.agv["AGVCost"])
        AGVEnegyCost ==
            Mul(Mul(Mul(s.as["electricityPrice"],
                        s.agv["AGVEnergyConsumption"]),
                    AGVDailyDistance),
                days)
        AGVDataCost ==
            Mul(Mul(s.as["dataCarriage"], s.agv["AGVDataUse"]), days)
        AGVCostPerDisengagement ==
            Mul(Div(s.agv["AGVDisengagementTime"], I(60)),
                s.veh["OperatorHourlyWage"])
        AGVDisengagementCost ==
            Mul(Mul(Mul(s.agv["AGVDisengagementPerKm"],
                        AGVCostPerDisengagement),
                    AGVDailyDistance),
                days)
        AGVAnnualOperationCost ==
            Add(Add(AGVEnegyCost, AGVDataCost), AGVDisengagementCost)
        AGVAnnualMaintenanceCost == Mul(s.agv["AGVMaintenance"], I(12))
        AGVAnnualCost ==
            Mul(NumberOfAGVs,
                Add(AGVAnnualOperationCost, AGVAnnualMaintenanceCost))
        AGVEndOfLifeCost == Mul(NumberOfAGVs, s.agv["AGVEOLCost"])
        InvestmentCost == Sub(VehiclePurchasePrice, AGVPurchasePrice)
        AnnualSavings == Sub(VehicleAnnualCost, AGVAnnualCost)
        EndOfLifePrice == Sub(VehicleEndOfLifeCost, AGVEndOfLifeCost)
        \* line 290
        cashFlows ==
            <<InvestmentCost>>
                \o Repeat(AnnualSavings, Trunc(g.YearsOfOperation).n - 1)
                \o <<Add(AnnualSavings, EndOfLifePrice)>>
    IN  [AnnualSavings |-> AnnualSavings,
         CumulativeVehicleAnnualCost |->
             Mul(VehicleAnnualOperationCost, s.as["YearsOfOperation"]),
         CumulativeAGVAnnualCost |->
             Mul(AGVAnnualOperationCost, s.as["YearsOfOperation"]),
         cashFlows |-> cashFlows,
         \* line 294
         npv |-> Npv(g.discountRate, cashFlows),
         \* line 298
         nper |-> Nper(g.discountRate, AnnualSavings, InvestmentCost)]

\* the whole call of the variant's ModelAGVUseCase on the dictionaries s0
ScriptModelAGVUseCase(s0, g) ==
    LET s == ScriptSanityCheck(s0)
    IN  IF ScriptRaisesAt(s) # 0
        THEN [status |-> "ZeroDivisionError", args |-> s0, store |-> s,
              line |-> ScriptRaisesAt(s)]
        ELSE [status |-> "returned", args |-> s0, store |-> s,
              out |-> ScriptBody(s, g)]

\* the script has built its dictionaries (line 188)
ScriptInit ==
    /\ assumptions = ScriptAssumptions
    /\ inputs = ScriptInputs
    /\ vehicle = ScriptVehicle
    /\ agv = ScriptAGV
    /\ sa = [r \in Runs |-> IdleFrame(ScriptStore)]
    /\ ret = NoRet

\* the variant's SenstivityAnalysis is called (line 463); lines 374-387
ScriptCall(key, minMaxPerc, numLevels) ==
    /\ Quiescent
    /\ sa' = [sa EXCEPT ![1] = CallFrame(Store, key, minMaxPerc, numLevels)]
    /\ UNCHANGED <<assumptions, inputs, vehicle, agv, ret>>

\* lines 389-405: one iteration of the variant's loop
ScriptTrial ==
    LET f == sa[1] IN
    /\ f.status = "running"
    /\ f.k <= Len(f.minMaxVec)
    /\ IF f.origKey.t = "obj"
       THEN \* origKey * (1 + perc) on a nested dictionary
            /\ sa' = [sa EXCEPT ![1].status = "raised",
                                ![1].exc = "TypeError"]
            /\ UNCHANGED <<assumptions, inputs, vehicle, agv, ret>>
       ELSE \E s1 \in {SetAttr(Store, f.key,
                              Perturbed(f.origKey, f.minMaxVec[f.k]))} :
            \E res \in {ScriptModelAGVUseCase(s1, ScriptGlobals)} :
            \E vv \in {Append(f.valVec, Val(GetAttr(s1, f.key)))} :
                /\ SetStore(res.store)
                /\ ret' = res
                /\ sa' = [sa EXCEPT ![1] =
                      IF res.status = "returned"
                      THEN [f EXCEPT !.valVec = vv,
                                     !.npvVec = Append(f.npvVec, res.out.npv),
                                     !.minMaxVals = <<MinOf(vv), MaxOf(vv)>>,
                                     !.evals = f.evals + 1,
                                     !.k = f.k + 1]
                      ELSE [f EXCEPT !.valVec = vv,
                                     !.evals = f.evals + 1,
                                     !.status = "raised",
                                     !.exc = res.status]]

\* lines 407-416: the entry is written back and the vectors are returned
ScriptReturn ==
    LET f == sa[1] IN
    /\ f.status = "running"
    /\ f.k > Len(f.minMaxVec)
    /\ SetStore(SetAttr(Store, f.key, f.origKey))
    /\ sa' = [sa EXCEPT ![1].status = "returned"]
    /\ UNCHANGED ret

\* the loop at lines 462-463 goes on to the next key
ScriptProceed ==
    /\ sa[1].status = "returned"
    /\ sa' = [sa EXCEPT ![1] = IdleFrame(Store)]
    /\ ret' = NoRet
    /\ UNCHANGED <<assumptions, inputs, vehicle, agv>>

\* the numLevels values tried for the variant are 0..ScriptLevels
ScriptLevels == 2

ScriptNext ==
    \/ \E key \in ScriptKeys, p \in Percents, n \in 0..ScriptLevels :
          ScriptCall(key, p, n)
    \/ ScriptTrial
    \/ ScriptReturn
    \/ ScriptProceed

ScriptSpec == ScriptInit /\ [][ScriptNext]_vars

----------------------------------------------------------------------------
(* Repeated evaluation.  A caller evaluates the same records twice, keeps  *)
(* both Outputs and then runs SenstivityAnalysis.  The cash_flows of an    *)
(* Output is a reference to a list object: heap[ref] is the list's content *)
(* and held[i] the i-th Output as it was returned, with its reference.     *)

\* variant: every evaluation fills one shared list object
NewListShared(heap, contents) == <<contents>>

\* lines 365-369: the concatenation builds a new list object; the heap
\* after the allocation, the new list being its last entry
NewList(heap, contents) == Append(heap, contents)

\* the keys of the later SenstivityAnalysis run
RepeatKeys == {"agv_cost", "discount_rate", "yearly_operation_days"}

RepeatInit ==
    /\ \E s \in Scenarios :
          /\ assumptions = s.as
          /\ inputs = s.inp
          /\ vehicle = s.veh
          /\ agv = s.agv
          /\ sa = [r \in Runs |->
                      [status |-> "first call", pre |-> s, after |-> s,
                       heap |-> <<>>, held |-> <<>>, key |-> "",
                       origKey |-> Obj, minMaxVec |-> <<>>, k |-> 0,
                       npvVec |-> <<>>]]
    /\ ret = NoRet

\* the records an evaluation is called on: as they are for the two direct
\* calls, with the attribute perturbed in a trial (Functions, lines 563-574)
EvaluatedStore(f, s) ==
    IF f.status = "running"
    THEN SetAttr(s, f.key, Perturbed(f.origKey, f.minMaxVec[f.k]))
    ELSE s

\* one call of ModelAGVUseCase: the caller's first or second direct call
\* (main script, line 222), or the call of a trial of SenstivityAnalysis
\* (Functions, line 576)
RepeatEvaluate ==
    LET f == sa[1] IN
    /\ f.status \in {"first call", "second call", "running"}
    /\ f.status = "running" => f.k <= Len(f.minMaxVec)
    /\ \E res \in {ModelAGVUseCase(EvaluatedStore(f, Store))} :
          /\ ret' = res
          /\ SetStore(res.store)
          /\ IF res.status # "returned"
             THEN sa' = [sa EXCEPT ![1].status = "raised"]
             ELSE \E h \in {NewList(f.heap, res.out.cash_flows)} :
                  sa' = [sa EXCEPT ![1] =
                     IF f.status = "running"
                     THEN [f EXCEPT !.heap = h,
                                    !.npvVec = Append(f.npvVec, res.out.npv),
                                    !.k = f.k + 1]
                     ELSE [f EXCEPT
                              !.heap = h,
                              !.held = Append(f.held,
                                              [out |-> res.out,
                                               ref |-> Len(h)]),
                              !.after = IF f.status = "first call"
                                        THEN res.store ELSE f.after,
                              !.status = IF f.status = "first call"
                                         THEN "second call" ELSE "idle"]]

\* SenstivityAnalysis is called after the two evaluations (Functions, lines
\* 545-560)
RepeatSensitivityCall(key, minMaxPerc, numLevels) ==
    LET f == sa[1] IN
    /\ f.status = "idle"
    /\ sa' = [sa EXCEPT ![1] =
                 [f EXCEPT !.status = "running", !.key = key,
                           !.origKey = GetAttr(Store, key),
                           !.minMaxVec = MinMaxVec(minMaxPerc, numLevels),
                           !.k = 1]]
    /\ UNCHANGED <<assumptions, inputs, vehicle, agv, ret>>

\* SenstivityAnalysis returns (Functions, lines 580-589)
RepeatSensitivityReturn ==
    LET f == sa[1] IN
    /\ f.status = "running"
    /\ f.k > Len(f.minMaxVec)
    /\ SetStore(SetAttr(Store, f.key, f.origKey))
    /\ sa' = [sa EXCEPT ![1].status = "returned"]
    /\ UNCHANGED ret

RepeatNext ==
    \/ RepeatEvaluate
    \/ \E key \in RepeatKeys :
          RepeatSensitivityCall(key, ConcPercent, ConcLevels)
    \/ RepeatSensitivityReturn

RepeatSpec == RepeatInit /\ [][RepeatNext]_vars

----------------------------------------------------------------------------
(* Properties.                                                             *)

Positive(x) == Gt(x, I(0))
NonNegative(x) == Ge(x, I(0))

\* the frame has been through SenstivityAnalysis' lookup
Called(f) == f.status # "idle"

\* the attribute's value before the call
PreValue(f) == GetAttr(f.pre, f.key)

\* the 1-based position of the inserted 0% entry, index floor(numLevels/2)
MidIndex(f) == (f.numLevels \div 2) + 1

ZeroIndices(f) == {j \in 1..Len(f.minMaxVec) : f.minMaxVec[j] = I(0)}

\* C1: after a call to SenstivityAnalysis that returns normally, the named
\* attribute holds exactly the value (and object type) it held before the
\* call.
C1_RestoredOnReturn ==
    \A r \in Runs :
        sa[r].status = "returned" =>
            GetAttr(Store, sa[r].key) = PreValue(sa[r])

\* a returned run whose trials really changed the attribute
C1_Witness ==
    \E r \in Runs :
        /\ sa[r].status = "returned"
        /\ \E j \in 1..Len(sa[r].valVec) :
              sa[r].valVec[j] # Val(PreValue(sa[r]))
        /\ sa[r].key = "yearly_operation_days"
        /\ PreValue(sa[r]) = PyI(400)

\* C2 (as claimed): when ModelAGVUseCase raises during a trial, the named
\* attribute is back at its pre-call value when the error reaches the
\* caller.
C2_RestoredOnError ==
    \A r \in Runs :
        (sa[r].status = "raised" /\ sa[r].exc = "ZeroDivisionError") =>
            Val(GetAttr(Store, sa[r].key)) = Val(PreValue(sa[r]))

\* C3: the NPV recorded for a 0% trial equals the npv of a direct
\* evaluation of the pre-call records, whenever that evaluation returns.
C3_ZeroTrialIsBaseline ==
    \A r \in Runs :
        LET direct == ModelAGVUseCase(sa[r].pre)
        IN  \A j \in 1..Len(sa[r].npvVec) :
                (sa[r].minMaxVec[j] = I(0) /\ direct.status = "returned")
                    => sa[r].npvVec[j] = direct.out.npv

\* a 0% trial recorded after a trial that produced a different NPV
C3_Witness ==
    \E r \in Runs :
        \E j \in 2..Len(sa[r].npvVec) :
            /\ sa[r].minMaxVec[j] = I(0)
            /\ sa[r].npvVec[j - 1] # sa[r].npvVec[j]
            /\ IsFinite(sa[r].npvVec[j])
            /\ ModelAGVUseCase(sa[r].pre).status = "returned"

NoSuchAttribute(key) ==
    key \notin (AssumptionFields \cup InputFields \cup VehicleFields
                    \cup AgvFields)

\* C5: for a key that is an attribute of none of the four records the call
\* fails with 'Key not found' before any trial: ModelAGVUseCase is not
\* evaluated and no attribute of any record is modified.
C5_KeyNotFound ==
    \A r \in Runs :
        (Called(sa[r]) /\ NoSuchAttribute(sa[r].key)) =>
            /\ sa[r].status = "raised"
            /\ sa[r].exc = "KeyNotFound"
            /\ sa[r].evals = 0
            /\ sa[r].valVec = <<>>
            /\ ret = NoRet
            /\ Store = sa[r].pre

\* the lookup failed on records whose clamped attributes are out of range
C5_Witness ==
    \E r \in Runs :
        /\ sa[r].exc = "KeyNotFound"
        /\ sa[r].key = "no_such_field"
        /\ inputs["yearly_operation_days"] = PyI(400)

C7_OneFactorAtATime ==
    \A r \in Runs :
        \A j \in 1..Len(sa[r].npvVec) :
            LET f == sa[r]
                v == Np(Mul(PreValue(f), Add(I(1), f.minMaxVec[j])))
                fresh == ModelAGVUseCase(SetAttr(f.pre, f.key, v))
            IN  /\ fresh.status = "returned"
                /\ f.npvVec[j] = fresh.out.npv

\* three trials on an attribute the model overwrites in place, with
\* different results
C7_Witness ==
    \E r \in Runs :
        /\ sa[r].key = "yearly_operation_days"
        /\ Len(sa[r].npvVec) >= 3
        /\ sa[r].npvVec[1] # sa[r].npvVec[2]
        /\ sa[r].npvVec[2] # sa[r].npvVec[3]
        /\ inputs["yearly_operation_days"] # PreValue(sa[r])

\* the sizing inputs of the last evaluation are positive (material_to_move
\* and mission_length non-negative)
ValidSizing(s) ==
    /\ Positive(s.veh["vehicle_material_capacity"])
    /\ Positive(s.veh["vehicle_average_speed"])
    /\ Positive(s.veh["vehicle_max_shift_length"])
    /\ Positive(s.agv["agv_material_capacity"])
    /\ Positive(s.agv["agv_average_speed"])
    /\ Positive(s.agv["agv_charge_rate"])
    /\ Positive(s.agv["agv_max_shift_length"])
    /\ NonNegative(s.inp["material_to_move"])
    /\ NonNegative(s.inp["mission_length"])

\* n is the least integer with n * shift >= time
IsCeilingOf(n, time, shift) ==
    /\ IsIntegral(n)
    /\ Ge(Mul(n, shift), time)
    /\ Lt(Mul(Sub(n, I(1)), shift), time)

C9_MissionsCoverMaterial ==
    ret.status = "returned" =>
        /\ Positive(ret.args.veh["vehicle_material_capacity"]) =>
              IsCeilingOf(ret.loc.VehicleDailyMissions,
                          ret.args.inp["material_to_move"],
                          ret.args.veh["vehicle_material_capacity"])
        /\ Positive(ret.args.agv["agv_material_capacity"]) =>
              IsCeilingOf(ret.loc.AGVDailyMissions,
                          ret.args.inp["material_to_move"],
                          ret.args.agv["agv_material_capacity"])

\* material that is not a multiple of the vehicle capacity, nearer to the
\* lower multiple
C9_Witness ==
    /\ ret.status = "returned"
    /\ ret.args.inp["material_to_move"] = PyI(5)
    /\ ret.args.veh["vehicle_material_capacity"] = PyI(2)
    /\ ret.loc.VehicleDailyMissions = I(3)
    /\ Positive(ret.args.agv["agv_material_capacity"])
    /\ ~IsIntegral(Div(ret.args.inp["material_to_move"],
                       ret.args.agv["agv_material_capacity"]))

\* C10 (as claimed): ModelAGVUseCase returns no Output when a material
\* capacity, a max shift length or an average speed is zero or negative.
C10_RejectsNonPositive ==
    ret.status = "returned" =>
        /\ Positive(ret.args.veh["vehicle_material_capacity"])
        /\ Positive(ret.args.agv["agv_material_capacity"])
        /\ Positive(ret.args.veh["vehicle_max_shift_length"])
        /\ Positive(ret.args.agv["agv_max_shift_length"])
        /\ Positive(ret.args.veh["vehicle_average_speed"])
        /\ Positive(ret.args.agv["agv_average_speed"])

----------------------------------------------------------------------------
(* Properties of the cash flows and of the Output.                         *)

\* floor of a finite value
Floor(x) == I(x.n \div x.d)

\* C11: for years_of_operation > 1 the returned cash_flows list has
\* floor(years_of_operation) + 1 entries: the first is the investment cost,
\* the last is annual_savings plus the end-of-life saving (vehicle minus
\* AGV end-of-life cost), and every entry in between is annual_savings.
C11_CashFlowShape ==
    (/\ ret.status = "returned"
     /\ Gt(ret.store.as["years_of_operation"], I(1))) =>
        LET cf == ret.out.cash_flows
            n == Len(cf)
        IN  /\ I(n) = Add(Floor(ret.store.as["years_of_operation"]), I(1))
            /\ cf[1] = ret.loc.InvestmentCost
            /\ cf[n] = Add(ret.out.annual_savings,
                           Sub(ret.loc.VehicleEndOfLifeCost,
                               ret.loc.AGVEndOfLifeCost))
            /\ \A j \in 2..(n - 1) : cf[j] = ret.out.annual_savings

\* a fractional number of years above 1, with a non-zero investment and a
\* non-zero end-of-life saving
C11_Witness ==
    /\ ret.status = "returned"
    /\ ret.store.as["years_of_operation"] = Np(Rat(9, 2))
    /\ Len(ret.out.cash_flows) = 5
    /\ ret.out.cash_flows[1] # I(0)
    /\ ret.out.cash_flows[5] # ret.out.cash_flows[4]
    /\ IsFinite(ret.out.annual_savings)

\* C12: cash_flows[0] is vehicle purchase - AGV purchase (fleet totals)
\* when the vehicle purchase is strictly below the AGV purchase and 0
\* otherwise, hence never positive; with agv_cost = 0 the leasing price
\* changes annual_savings by the fleet's leasing total and leaves
\* cash_flows[0] as it is without leasing.
C12_InvestmentEntry ==
    ret.status = "returned" =>
        LET vp == ret.loc.VehiclePurchasePrice
            ap == ret.loc.AGVPurchasePrice
            cf0 == ret.out.cash_flows[1]
        IN  /\ cf0 = IF Lt(vp, ap) THEN Sub(vp, ap) ELSE I(0)
            /\ Le(cf0, I(0))
            /\ (IsZero(ret.store.agv["agv_cost"])
                    /\ IsFinite(ret.out.annual_savings)) =>
                  LET unleased ==
                          ModelAGVUseCase(
                              [ret.args EXCEPT !.agv["agv_leasing"] = PyI(0)])
                  IN  /\ unleased.status = "returned"
                      /\ unleased.out.cash_flows[1] = cf0
                      /\ ret.out.annual_savings =
                             Sub(unleased.out.annual_savings,
                                 ret.loc.AGVLeasingPrice)

\* an evaluation with a negative investment entry
C12_WitnessPurchased ==
    /\ ret.status = "returned"
    /\ Lt(ret.out.cash_flows[1], I(0))
    /\ IsFinite(ret.out.cash_flows[1])
    /\ Positive(ret.loc.VehiclePurchasePrice)

\* a leased fleet: agv_cost = 0 and a positive leasing total
C12_Witness ==
    /\ ret.status = "returned"
    /\ IsZero(ret.store.agv["agv_cost"])
    /\ Positive(ret.loc.AGVLeasingPrice)
    /\ IsFinite(ret.out.annual_savings)
    /\ ret.out.cash_flows[1] = I(0)
    /\ Positive(ret.loc.VehiclePurchasePrice)

\* the records with agv_cost replaced by 0.75 * agv_cost
CheaperAGV(s) ==
    [s EXCEPT !.agv["agv_cost"] =
        IF s.agv["agv_cost"].t = "py"
        THEN Py(Mul(Rat(3, 4), s.agv["agv_cost"]))
        ELSE Np(Mul(Rat(3, 4), s.agv["agv_cost"]))]

\* C13 (as claimed): with valid sizing inputs and agv_cost > 0, the npv of
\* the records with agv_cost replaced by 0.75 * agv_cost is strictly
\* greater than the npv of the unmodified records.
C13_CheaperStrictlyBetter ==
    (/\ ret.status = "returned"
     /\ ValidSizing(ret.args)
     /\ Positive(ret.args.agv["agv_cost"])) =>
        LET cheaper == ModelAGVUseCase(CheaperAGV(ret.args))
        IN  /\ cheaper.status = "returned"
            /\ Gt(cheaper.out.npv, ret.out.npv)

\* C13 (amended): with valid sizing inputs, agv_cost > 0 and
\* discount_rate # -1, the npv with 0.75 * agv_cost is at least the npv of
\* the unmodified records, and strictly greater exactly when the vehicle
\* purchase price is strictly below the AGV purchase price.
C13_CheaperNotWorse ==
    (/\ ret.status = "returned"
     /\ ValidSizing(ret.args)
     /\ Positive(ret.args.agv["agv_cost"])
     /\ ret.args.as["discount_rate"] # PyI(-1)) =>
        LET cheaper == ModelAGVUseCase(CheaperAGV(ret.args))
        IN  /\ cheaper.status = "returned"
            /\ Ge(cheaper.out.npv, ret.out.npv)
            /\ Gt(cheaper.out.npv, ret.out.npv)
                   <=> Lt(ret.loc.VehiclePurchasePrice,
                          ret.loc.AGVPurchasePrice)

\* an evaluation whose AGV fleet costs more than the vehicle fleet, and one
\* quarter off the AGV price raises the npv
C13_Witness ==
    /\ ret.status = "returned"
    /\ ValidSizing(ret.args)
    /\ Positive(ret.args.agv["agv_cost"])
    /\ Lt(ret.loc.VehiclePurchasePrice, ret.loc.AGVPurchasePrice)
    /\ IsFinite(ret.out.npv)
    /\ Gt(ModelAGVUseCase(CheaperAGV(ret.args)).out.npv, ret.out.npv)

\* C14: the triple returned by ModelAGVMission lies within its clamp
\* bounds: average_speed in [0.5, 64], disengagements_per_km in
\* [0.0008, 2], time_per_disengagement in [0.5, 120].
C14_MissionWithinBounds ==
    ret.status = "mission" =>
        /\ Ge(ret.AverageSpeed, Rat(1, 2))
        /\ Le(ret.AverageSpeed, I(64))
        /\ Ge(ret.DisengagementsPerKm, Rat(8, 10000))
        /\ Le(ret.DisengagementsPerKm, I(2))
        /\ Ge(ret.TimePerDisengagement, Rat(1, 2))
        /\ Le(ret.TimePerDisengagement, I(120))

\* a call at technology_readiness = 0 whose speed and disengagement
\* estimates are all held by a clamp
C14_Witness ==
    /\ ret.status = "mission"
    /\ ret.args.as["technology_readiness"] = PyI(0)
    /\ ret.AverageSpeed = Rat(1, 2)
    /\ ret.DisengagementsPerKm = I(2)
    /\ ret.TimePerDisengagement = I(120)

\* a call at technology_readiness = 20: the clamps hold at the other ends
C14_WitnessMature ==
    /\ ret.status = "mission"
    /\ ret.args.as["technology_readiness"] = PyI(20)
    /\ ret.AverageSpeed = I(64)
    /\ ret.DisengagementsPerKm = Rat(8, 10000)
    /\ ret.TimePerDisengagement = Rat(1, 2)

\* a call whose triple lies strictly inside all three ranges
C14_WitnessInside ==
    /\ ret.status = "mission"
    /\ Gt(ret.AverageSpeed, Rat(1, 2)) /\ Lt(ret.AverageSpeed, I(64))
    /\ Gt(ret.DisengagementsPerKm, Rat(8, 10000))
    /\ Lt(ret.DisengagementsPerKm, I(2))
    /\ Gt(ret.TimePerDisengagement, Rat(1, 2))
    /\ Lt(ret.TimePerDisengagement, I(120))

\* C15 (as claimed): the financing-mode warning is issued exactly when the
\* AGV purchase price and the AGV leasing price (fleet totals) are both
\* nonzero, and a warned call returns an Output whose investment entry
\* takes the purchase price and whose AGV annual cost adds the leasing
\* total once.
C15_WarnsWhenBothNonzero ==
    ret.status = "returned" =>
        LET ap == ret.loc.AGVPurchasePrice
            lp == ret.loc.AGVLeasingPrice
            vp == ret.loc.VehiclePurchasePrice
        IN  /\ ret.warned <=> (~IsZero(ap) /\ ~IsZero(lp))
            /\ ret.warned =>
                  /\ ret.out.cash_flows[1] =
                         (IF Lt(vp, ap) THEN Sub(vp, ap) ELSE I(0))
                  /\ ret.loc.AGVAnnualCost =
                         Add(Mul(ret.loc.NumberOfAGVs,
                                 Add(ret.loc.AGVAnnualOperationCost,
                                     Mul(ret.store.agv["agv_maintenance"],
                                         I(12)))),
                             lp)

\* the payback period is ill-defined: annual_savings <= 0, or
\* annual_savings + discount_rate * investment_cost <= 0
IllDefinedPayback(r) ==
    \/ Le(r.out.annual_savings, I(0))
    \/ Le(Add(r.out.annual_savings,
              Mul(r.store.as["discount_rate"], r.loc.InvestmentCost)), I(0))

\* C16 (as claimed): when the payback period is ill-defined, the Output's
\* nper is an infinite sentinel value, not nan and not a finite number.
C16_NperSentinel ==
    (ret.status = "returned" /\ IllDefinedPayback(ret)) =>
        ret.out.nper.class \in {"inf", "-inf"}

----------------------------------------------------------------------------
(* Properties of the in-place clamps.                                      *)

DaysInRange(v) ==
    IsIntegral(v) /\ Ge(v, I(1)) /\ Le(v, I(365))

EnergyInRange(v) ==
    Ge(v, Rat(95, 100)) /\ Le(v, Rat(97, 100))

\* C17 (as claimed): whenever a call to ModelAGVUseCase or to
\* SenstivityAnalysis has returned, yearly_operation_days is an integer in
\* [1, 365] and diesel_energy is in [0.95, 0.97].
C17_ClampedAfterReturn ==
    ret.status = "returned" =>
        /\ DaysInRange(inputs["yearly_operation_days"])
        /\ EnergyInRange(assumptions["diesel_energy"])

\* C17 (amended): both fields are in range after every return of
\* ModelAGVUseCase; after a return of SenstivityAnalysis the field named by
\* the key holds its pre-call value and the other of the two fields is in
\* range.
C17_ClampedOrRestored ==
    /\ (ret.status = "returned"
            /\ \A r \in Runs : sa[r].status # "returned") =>
          /\ DaysInRange(inputs["yearly_operation_days"])
          /\ EnergyInRange(assumptions["diesel_energy"])
    /\ \A r \in Runs :
          sa[r].status = "returned" =>
              /\ IF sa[r].key = "yearly_operation_days"
                 THEN inputs["yearly_operation_days"] = PreValue(sa[r])
                 ELSE DaysInRange(inputs["yearly_operation_days"])
              /\ IF sa[r].key = "diesel_energy"
                 THEN assumptions["diesel_energy"] = PreValue(sa[r])
                 ELSE EnergyInRange(assumptions["diesel_energy"])

\* a sensitivity run on another key has returned and left the days, 400
\* before the call, clamped to 365
C17_Witness ==
    \E r \in Runs :
        /\ sa[r].status = "returned"
        /\ sa[r].key = "discount_rate"
        /\ sa[r].pre.inp["yearly_operation_days"] = PyI(400)
        /\ inputs["yearly_operation_days"] = PyI(365)
        /\ assumptions["diesel_energy"] = Np(Rat(96, 100))

----------------------------------------------------------------------------
(* The baseline scenario.                                                  *)

\* the records passed hold the baseline values in every field the fleet
\* sizes and purchase prices are computed from
IsBaselineScenario(s) ==
    /\ Val(s.inp["mission_length"]) = I(2)
    /\ Val(s.inp["material_to_move"]) = I(200)
    /\ Val(s.inp["yearly_operation_days"]) = I(212)
    /\ Val(s.veh["vehicle_average_speed"]) = I(12)
    /\ Val(s.veh["vehicle_material_capacity"]) = I(40)
    /\ Val(s.veh["vehicle_max_shift_length"]) = I(8)
    /\ Val(s.veh["vehicle_cost"]) = I(74000)
    /\ Val(s.agv["agv_average_speed"]) = I(3)
    /\ Val(s.agv["agv_charge_rate"]) = I(3)
    /\ Val(s.agv["agv_material_capacity"]) = I(20)
    /\ Val(s.agv["agv_energy_consumption"]) = Rat(14, 100)
    /\ Val(s.agv["agv_max_shift_length"]) = I(24)
    /\ Val(s.agv["agv_cost"]) = I(115000)
    /\ Val(s.agv["agv_leasing"]) = I(0)

\* C18: for the baseline scenario ModelAGVUseCase computes a vehicle fleet
\* size of 1 and an AGV fleet size (num_robots) of 1.
C18_BaselineFleets ==
    (ret.status = "returned" /\ IsBaselineScenario(ret.args)) =>
        /\ ret.loc.NumberOfVehicles = I(1)
        /\ ret.out.num_robots = I(1)

\* the baseline scenario has been evaluated: 5 and 10 daily missions,
\* 5/6 h and 7.6 h of daily time, one vehicle against one AGV
C18_Witness ==
    /\ ret.status = "returned"
    /\ IsBaselineScenario(ret.args)
    /\ ret.loc.VehicleDailyMissions = I(5)
    /\ ret.loc.AGVDailyMissions = I(10)
    /\ ret.loc.VehicleDailyTime = Rat(5, 6)
    /\ ret.loc.AGVDailyTime = Rat(38, 5)
    /\ ret.out.cash_flows[1] = I(-41000)

----------------------------------------------------------------------------
(* The net present value as a function of the discount rate.               *)

\* discount rates the evaluation is repeated with
OtherRates == {PyR(1, 2), PyI(1), PyI(2)}

\* every entry of the list after the investment entry is positive
YearlyEntriesPositive(cashFlows) ==
    \A i \in 2..Len(cashFlows) : Positive(cashFlows[i])

\* C19: for fixed inputs whose yearly cash-flow entries are all positive,
\* the returned npv is strictly decreasing in discount_rate over
\* discount_rate >= 0: the same records with a greater rate give a
\* strictly smaller npv.
C19_NpvStrictlyDecreasing ==
    (/\ ret.status = "returned"
     /\ NonNegative(ret.args.as["discount_rate"])
     /\ YearlyEntriesPositive(ret.out.cash_flows)) =>
        \A r2 \in OtherRates :
            Gt(r2, ret.args.as["discount_rate"]) =>
                LET other == ModelAGVUseCase(
                                 [ret.args EXCEPT !.as["discount_rate"] = r2])
                IN  /\ other.status = "returned"
                    /\ other.out.cash_flows = ret.out.cash_flows
                    /\ Lt(other.out.npv, ret.out.npv)

----------------------------------------------------------------------------
(* Independence of the two fleets.                                         *)

\* values a single field is changed to
ChangedValues == {PyI(0), PyI(1), PyI(3)}

\* what a returned call computed for the AGV fleet and for the vehicle
\* fleet: fleet size, annual cost, end-of-life cost
AGVSide(r) ==
    <<r.loc.NumberOfAGVs, r.loc.AGVAnnualCost, r.loc.AGVEndOfLifeCost>>

VehicleSide(r) ==
    <<r.loc.NumberOfVehicles, r.loc.VehicleAnnualCost,
      r.loc.VehicleEndOfLifeCost>>

\* C20 as stated: changing any field of the Vehicle record leaves the AGV
\* fleet size, annual cost and end-of-life cost unchanged, and changing any
\* field of the Agv record leaves the vehicle fleet size, annual cost and
\* end-of-life cost unchanged.
C20_FleetsIndependent ==
    ret.status = "returned" =>
        /\ \A f \in VehicleFields, v \in ChangedValues :
               LET other == ModelAGVUseCase([ret.args EXCEPT !.veh[f] = v])
               IN  other.status = "returned" =>
                       AGVSide(other) = AGVSide(ret)
        /\ \A f \in AgvFields, v \in ChangedValues :
               LET other == ModelAGVUseCase([ret.args EXCEPT !.agv[f] = v])
               IN  other.status = "returned" =>
                       VehicleSide(other) = VehicleSide(ret)

\* C20 (amended): the same, except that operator_hourly_wage, which prices
\* the AGV's disengagements, may change the AGV annual cost; it leaves the
\* AGV fleet size and end-of-life cost unchanged.
C20_IndependentButWage ==
    ret.status = "returned" =>
        /\ \A f \in VehicleFields, v \in ChangedValues :
               LET other == ModelAGVUseCase([ret.args EXCEPT !.veh[f] = v])
               IN  other.status = "returned" =>
                       /\ other.loc.NumberOfAGVs = ret.loc.NumberOfAGVs
                       /\ other.loc.AGVEndOfLifeCost
                              = ret.loc.AGVEndOfLifeCost
                       /\ f # "operator_hourly_wage" =>
                              other.loc.AGVAnnualCost = ret.loc.AGVAnnualCost
        /\ \A f \in AgvFields, v \in ChangedValues :
               LET other == ModelAGVUseCase([ret.args EXCEPT !.agv[f] = v])
               IN  other.status = "returned" =>
                       VehicleSide(other) = VehicleSide(ret)

\* a returned evaluation in which a different vehicle capacity changes the
\* vehicle fleet, a different AGV capacity changes the AGV fleet, and a
\* different wage changes the AGV annual cost
C20_Witness ==
    /\ ret.status = "returned"
    /\ LET other == ModelAGVUseCase(
                        [ret.args EXCEPT
                            !.veh["vehicle_material_capacity"] = PyI(1)])
       IN  /\ other.status = "returned"
           /\ VehicleSide(other) # VehicleSide(ret)
           /\ AGVSide(other) = AGVSide(ret)
    /\ LET other == ModelAGVUseCase(
                        [ret.args EXCEPT
                            !.agv["agv_material_capacity"] = PyI(3)])
       IN  /\ other.status = "returned"
           /\ AGVSide(other) # AGVSide(ret)
           /\ VehicleSide(other) = VehicleSide(ret)
    /\ LET other == ModelAGVUseCase(
                        [ret.args EXCEPT
                            !.veh["operator_hourly_wage"] = PyI(1)])
       IN  /\ other.status = "returned"
           /\ other.loc.AGVAnnualCost # ret.loc.AGVAnnualCost

----------------------------------------------------------------------------
(* Frame conditions.                                                       *)

\* the four records of a store
RecordNames == {"as", "inp", "veh", "agv"}

\* the fields ModelAGVUseCase clamps in place
ClampedFields ==
    {<<"inp", "yearly_operation_days">>, <<"as", "diesel_energy">>}

\* the field SenstivityAnalysis writes: the named attribute in the first
\* record that has it
NamedField(f) == {<<Owner(f.pre, f.key), f.key>>}

\* stores s1 and s2 agree (value and type) on every field not in written
SameExcept(s1, s2, written) ==
    \A rec \in RecordNames :
        \A k \in DOMAIN s1[rec] :
            <<rec, k>> \notin written => s2[rec][k] = s1[rec][k]

\* C21: ModelAGVUseCase writes no field of the four records other than
\* inputs.yearly_operation_days and assumptions.diesel_energy, and
\* SenstivityAnalysis additionally writes only the named field of the first
\* record that has it (order Assumption, Input, Vehicle, Agv); every other
\* field holds its pre-call value during and after the call.
C21_OnlyNamedAndClampedWritten ==
    /\ ret.status # "none" =>
          /\ SameExcept(ret.args, ret.store, ClampedFields)
          /\ (\A r \in Runs : ~Called(sa[r])) => Store = ret.store
    /\ \A r \in Runs :
          Called(sa[r]) =>
              SameExcept(sa[r].pre, Store,
                         ClampedFields \cup NamedField(sa[r]))

\* in the middle of a run on a vehicle field: the named field is perturbed
\* and both clamped fields have been rewritten
C21_Witness ==
    \E r \in Runs :
        /\ sa[r].status = "running"
        /\ sa[r].key = "vehicle_cost"
        /\ sa[r].k > 1
        /\ vehicle["vehicle_cost"] # sa[r].pre.veh["vehicle_cost"]
        /\ sa[r].pre.inp["yearly_operation_days"] = PyI(400)
        /\ inputs["yearly_operation_days"] = PyI(365)
        /\ assumptions["diesel_energy"] # sa[r].pre.as["diesel_energy"]

----------------------------------------------------------------------------
(* Reentrancy of SenstivityAnalysis.                                       *)

\* the fields in which the records differ in value from the baseline
OffBaseline(s) ==
    {<<rec, k>> \in RecordNames \X AllKeys :
        /\ k \in DOMAIN s[rec]
        /\ Val(s[rec][k]) # Val(BaseStore[rec][k])}

\* C22 (deep copies): when each of two interleaved runs operates on its own
\* deep copy of the records, no run leaves its perturbed field different
\* from its value before either run started, the caller's records are not
\* written, and every recorded NPV is that of the baseline with only the
\* run's own field replaced by original * (1 + offset).
C22_CopiesDoNotRace ==
    (\A r \in TwoRuns : OwnRecords(sa[r])) =>
        /\ Store = BaseStore
        /\ ret.status = "returned" => Cardinality(OffBaseline(ret.args)) <= 1
        /\ \A r \in TwoRuns :
              /\ sa[r].status = "returned" =>
                    GetAttr(sa[r].recs, sa[r].key)
                        = GetAttr(BaseStore, sa[r].key)
              /\ \A j \in 1..Len(sa[r].npvVec) :
                    LET v == Perturbed(GetAttr(BaseStore, sa[r].key),
                                       sa[r].minMaxVec[j])
                        fresh == ModelAGVUseCase(
                                     SetAttr(BaseStore, sa[r].key, v))
                    IN  sa[r].npvVec[j] = fresh.out.npv

\* C22 (shared records): both runs have finished on the same objects and
\* the perturbed field differs from its value before either run started,
\* because one run captured the other's perturbed value as its original
C22_Witness ==
    /\ \A r \in TwoRuns : ~OwnRecords(sa[r]) /\ sa[r].status = "returned"
    /\ sa[1].key = "agv_cost"
    /\ sa[2].key = "agv_cost"
    /\ agv["agv_cost"] # BaseStore.agv["agv_cost"]
    /\ \E r \in TwoRuns :
          /\ sa[r].origKey # BaseStore.agv["agv_cost"]
          /\ agv["agv_cost"] = sa[r].origKey

\* shared records: an NPV is recorded from an evaluation with two fields
\* off baseline
C22_WitnessTwoFactors ==
    /\ \A r \in TwoRuns : ~OwnRecords(sa[r])
    /\ ret.status = "returned"
    /\ OffBaseline(ret.args)
           = {<<"agv", "agv_cost">>, <<"veh", "vehicle_cost">>}
    /\ \E r \in TwoRuns :
          /\ sa[r].npvVec # <<>>
          /\ sa[r].npvVec[Len(sa[r].npvVec)] = ret.out.npv
          /\ ret.out.npv # ModelAGVUseCase(
                 SetAttr(BaseStore, sa[r].key,
                         GetAttr(ret.args, sa[r].key))).out.npv

\* own copies: both runs have finished after really perturbing their field
C22_WitnessCopies ==
    /\ \A r \in TwoRuns : OwnRecords(sa[r]) /\ sa[r].status = "returned"
    /\ sa[1].key = "agv_cost"
    /\ sa[2].key = "agv_cost"
    /\ sa[1].valVec[1] # Val(BaseStore.agv["agv_cost"])

----------------------------------------------------------------------------
(* ModelAGVMission: frame and idempotence.                                 *)

\* the assumptions ModelAGVMission clamps in place
AcceptanceFields ==
    {"company_acceptance", "mission_similarity", "mission_determinism"}

\* the triple a call returned
Triple(r) ==
    <<r.AverageSpeed, r.DisengagementsPerKm, r.TimePerDisengagement>>

\* C23: after ModelAGVMission returns, company_acceptance,
\* mission_similarity and mission_determinism each equal their pre-call
\* value clamped to [0.1, 1]; every other field of the four records is
\* unchanged; and a second call changes no field and returns the same
\* triple.
C23_MissionClampsIdempotent ==
    ret.status = "mission" =>
        /\ Store = ret.store
        /\ \A k \in AcceptanceFields :
              /\ Val(ret.store.as[k]) = Clip(ret.args.as[k], Rat(1, 10), I(1))
              /\ Ge(ret.store.as[k], Rat(1, 10))
              /\ Le(ret.store.as[k], I(1))
        /\ SameExcept(ret.args, ret.store,
                      {<<"as", k>> : k \in AcceptanceFields})
        /\ LET again == ModelAGVMission(ret.store)
           IN  /\ again.store = ret.store
               /\ Triple(again) = Triple(ret)

\* a first call that moved all three assumptions onto a bound
C23_Witness ==
    /\ ret.status = "mission"
    /\ ret.args.as["company_acceptance"] = PyI(5)
    /\ ret.args.as["mission_similarity"] = PyI(-1)
    /\ ret.args.as["mission_determinism"] = PyI(0)
    /\ assumptions["company_acceptance"] = Np(I(1))
    /\ assumptions["mission_similarity"] = Np(Rat(1, 10))
    /\ assumptions["mission_determinism"] = Np(Rat(1, 10))
    /\ assumptions["technology_readiness"] = PyI(3)

\* a second call on records the first call has clamped
C23_WitnessSecondCall ==
    /\ ret.status = "mission"
    /\ ret.args.as["company_acceptance"] = Np(I(1))
    /\ ret.args.as["mission_similarity"] = Np(Rat(1, 10))
    /\ ret.store = ret.args

----------------------------------------------------------------------------
(* The what-if scenarios of the main script.                               *)

\* C24: after the CHEAPER AGV scenario agv_cost equals its pre-scenario
\* value, and after the SLOW VEHICLE scenario vehicle_average_speed equals
\* its pre-scenario value, for every positive integer starting value, so
\* the sensitivity analysis (line 245 on) runs on the original baseline.
C24_ScenariosRestore ==
    /\ sa[1].status \in {"line 236", "line 237", "line 240", "line 245"} =>
          agv["agv_cost"] = sa[1].pre.agv["agv_cost"]
    /\ sa[1].status = "line 245" =>
          /\ vehicle["vehicle_average_speed"]
                 = sa[1].pre.veh["vehicle_average_speed"]
          /\ SameExcept(sa[1].pre, Store, ClampedFields)

----------------------------------------------------------------------------
(* The mission analysis of the main script.                                *)

\* the frame has completed at least one step of the current key's sweep
Stepped(f) == f.status \in {"sweep", "line 331", "line 454"} /\ f.k > 1

MissionFields ==
    {"agv_average_speed", "agv_disengagement_per_km",
     "agv_disengagement_time"}

\* every NPV recorded for the current key is the NPV of the pre-loop
\* records with the step's swept value
NpvFromPreLoop(f) ==
    \A j \in 1..Len(f.npvVectorsMission) :
        f.npvVectorsMission[j]
            = ModelAGVUseCase(StepStore(f.pre, f.key, f.minMaxKey[j])).out.npv

\* C25 as stated: after every step of the mission analysis the AGV's three
\* mission fields and the swept assumption have their values from before
\* the loop, and every recorded NPV depends only on its step's swept value.
C25_RestoredToPreLoop ==
    Stepped(sa[1]) =>
        /\ \A a \in MissionFields : agv[a] = sa[1].pre.agv[a]
        /\ Val(assumptions[sa[1].key]) = Val(sa[1].pre.as[sa[1].key])
        /\ NpvFromPreLoop(sa[1])

\* C25, amended: after every step of the mission analysis the AGV's three
\* mission fields have their values from before the loop and the swept
\* assumption has its value from before the loop, clamped to [0.1, 1] when
\* it is one of the three acceptance assumptions; every recorded NPV
\* depends only on the records before the loop and its step's swept value.
C25_RestoredUpToClamp ==
    Stepped(sa[1]) =>
        /\ \A a \in MissionFields : agv[a] = sa[1].pre.agv[a]
        /\ Val(assumptions[sa[1].key])
              = IF sa[1].key \in AcceptanceFields
                THEN Val(ClampAcceptance(sa[1].pre.as[sa[1].key]))
                ELSE Val(sa[1].pre.as[sa[1].key])
        /\ NpvFromPreLoop(sa[1])

\* the four sweeps are complete for records whose company acceptance was
\* above 1, and the last sweep recorded ten NPVs that are not all equal
C25_Witness ==
    /\ sa[1].status = "line 454"
    /\ Gt(sa[1].pre.as["company_acceptance"], I(1))
    /\ Len(sa[1].npvVectorsMission) = 10
    /\ \E i, j \in 1..10 :
          sa[1].npvVectorsMission[i] # sa[1].npvVectorsMission[j]

----------------------------------------------------------------------------
(* The script variant: the financial keys of the sensitivity analysis.     *)

\* a direct evaluation of the dictionaries s with the discount rate and the
\* horizon they hold
DirectEvaluation(s) ==
    ScriptBody(s, [discountRate |-> Val(s.as["discountRate"]),
                   YearsOfOperation |-> Val(s.as["YearsOfOperation"])])

\* C26: in the script variant every trial of SenstivityAnalysis on
\* 'discountRate' or 'YearsOfOperation' computes its npv and its cash flows
\* from the perturbed dictionary entry: they equal those of a direct
\* evaluation with that discount rate and horizon.
C26_TrialsUsePerturbedValue ==
    (/\ sa[1].status \in {"running", "returned"}
     /\ sa[1].key \in {"discountRate", "YearsOfOperation"}
     /\ ret.status = "returned") =>
        /\ ret.out.npv = DirectEvaluation(ret.store).npv
        /\ Len(ret.out.cashFlows) = Len(DirectEvaluation(ret.store).cashFlows)

----------------------------------------------------------------------------
(* The annual operation cost of the report (PlotCaseResults, lines         *)
(* 459-481).                                                               *)

\* the figure printed for a fleet: the cumulative cost of the Output
\* divided by the years of operation (lines 463 and 471)
ReportedAnnualCost(cumulative, s) ==
    Div(cumulative, s.as["years_of_operation"])

\* C27: the annual operation cost the report prints for each fleet includes
\* energy and data consumption, maintenance, the operator and the
\* disengagements: it is the fleet's annual cost, or that cost per vehicle.
C27_ReportedCostIncludesMaintenance ==
    (ret.status = "returned" /\ Gt(ret.store.as["years_of_operation"], I(0)))
        =>
        /\ ReportedAnnualCost(ret.out.cumulative_vehicle_annual_cost,
                              ret.store)
              \in {ret.loc.VehicleAnnualCost,
                   Div(ret.loc.VehicleAnnualCost, ret.loc.NumberOfVehicles)}
        /\ ReportedAnnualCost(ret.out.cumulative_agv_annual_cost, ret.store)
              \in {ret.loc.AGVAnnualCost,
                   Div(Sub(ret.loc.AGVAnnualCost, ret.loc.AGVLeasingPrice),
                       ret.loc.NumberOfAGVs)}

----------------------------------------------------------------------------
(* Repeatability of ModelAGVUseCase.                                       *)

\* C28: two calls of ModelAGVUseCase in succession on the same records
\* return Outputs that are equal field by field, the second call changes no
\* record field, and the list an Output's cash_flows refers to keeps the
\* content it was returned with through the second call and a later
\* SenstivityAnalysis run.
C28_Repeatable ==
    LET f == sa[1] IN
    /\ Len(f.held) = 2 =>
          /\ f.held[2].out = f.held[1].out
          /\ f.status = "idle" => Store = f.after
    /\ \A i \in 1..Len(f.held) :
          f.heap[f.held[i].ref] = f.held[i].out.cash_flows

\* a SenstivityAnalysis run after two evaluations of records whose
\* yearly_operation_days were out of range has returned, and one of its
\* trials produced cash flows other than those of the first Output
C28_Witness ==
    LET f == sa[1] IN
    /\ f.status = "returned"
    /\ Len(f.held) = 2
    /\ f.pre.inp["yearly_operation_days"] # f.after.inp["yearly_operation_days"]
    /\ \E j \in 1..Len(f.heap) : f.heap[j] # f.held[1].out.cash_flows

----------------------------------------------------------------------------
(* The npv as a function of agv_cost.                                      *)

\* the AGV prices the last evaluation's price is compared with
LowerCosts == {PyI(0), PyI(60), PyI(115)}

\* the records s with agv_cost replaced by c
WithAgvCost(s, c) == [s EXCEPT !.agv["agv_cost"] = c]

\* the Output of the lower price equals the Output out in everything the
\* price does not enter
SameButInvestment(lower, out) ==
    /\ lower.status = "returned"
    /\ lower.out.num_robots = out.num_robots
    /\ lower.out.annual_savings = out.annual_savings
    /\ Len(lower.out.cash_flows) = Len(out.cash_flows)
    /\ \A t \in 2..Len(out.cash_flows) :
          lower.out.cash_flows[t] = out.cash_flows[t]

\* C29 as stated: for non-negative agv_cost values c1 <= c2 and all other
\* fields equal, npv(c1) >= npv(c2), and num_robots, annual_savings and
\* every cash-flow entry but the investment entry are the same.
C29_NpvMonotoneInAgvCost ==
    ret.status = "returned" =>
        \A c1 \in LowerCosts :
            Le(c1, ret.args.agv["agv_cost"]) =>
                LET lower == ModelAGVUseCase(WithAgvCost(ret.args, c1))
                IN  /\ SameButInvestment(lower, ret.out)
                    /\ Ge(lower.out.npv, ret.out.npv)

----------------------------------------------------------------------------
(* The sequences SenstivityAnalysis returns.                               *)

\* the offsets are in non-decreasing order
NonDecreasing(vec) ==
    \A j \in 1..(Len(vec) - 1) : Le(vec[j], vec[j + 1])

\* the offset and NPV sequences of the returned frame f have numLevels + 1
\* entries, the offsets ascend from -minMaxPerc/100 to +minMaxPerc/100, and
\* minMaxVals is [min, max] of original * (1 + offset) over the trials
SequencesSpanRange(f) ==
    LET vals == {Mul(f.origKey, Add(I(1), f.minMaxVec[j])) :
                     j \in 1..Len(f.minMaxVec)}
    IN  /\ Len(f.minMaxVec) = f.numLevels + 1
        /\ Len(f.npvVec) = f.numLevels + 1
        /\ NonDecreasing(f.minMaxVec)
        /\ f.minMaxVec[1] = Rat(-f.minMaxPerc, 100)
        /\ f.minMaxVec[Len(f.minMaxVec)] = Rat(f.minMaxPerc, 100)
        /\ Len(f.minMaxVals) = 2
        /\ f.minMaxVals[1] \in vals
        /\ f.minMaxVals[2] \in vals
        /\ \A v \in vals : Le(f.minMaxVals[1], v) /\ Ge(f.minMaxVals[2], v)

====
